---- MODULE Spec2Model ----
(***************************************************************************)
(* lhcontrol: the Bluetooth device-session layer (package bluetooth) and   *)
(* the station Manager (package station) as state machines.                *)
(*                                                                         *)
(* Every action is "one blocking call returns, plus the local code that    *)
(* runs until the next blocking call is issued".  The blocking calls are   *)
(* the transport calls (adapter.Connect, DiscoverServices /                *)
(* DiscoverCharacteristics, Read, WriteWithoutResponse, Disconnect,        *)
(* adapter.Scan) and the mutex acquisitions.                               *)
(***************************************************************************)
EXTENDS Integers, FiniteSets, Sequences, TLC

(* ------------------------------ bounds -------------------------------- *)

\* Number of base stations (radio addresses) the session calls are made on.
NumAddrs == 1
\* Number of goroutines that call the session API concurrently.
MaxTasks == 2
\* The Manager specification: stations in range, goroutines that call the
\* Manager, and goroutines the Manager's calls can have running at once.
NumMgrAddrs == 1
MaxCallers == 2
MaxMgrTasks == 2
\* Advertisements the adapter delivers to the callback in one scan.
MaxAdverts == 3
\* Stations in range in the specification of the power calls.
NumPowerAddrs == 2
\* Stations of the map in the specification of the status check.
NumCheckAddrs == 1
NumNear == 1

(* ------------------------- program constants -------------------------- *)

PowerStateUnknown == -1
PowerStateOff == 0
PowerStateOn == 1
\* A discovery loop of one pass more.
maxRetriesDiscoveryOneMore == 3 + 1
\* A discovery loop of one pass fewer.
maxRetriesDiscoveryOneLess == 3 - 1

\* const maxRetries = 3 of connectAndDiscoverInternal's discovery loop.
maxRetriesDiscovery == 3
\* const maxRetries = 2 of PowerOn / PowerOff.
maxRetriesPower == 2

NoTask == 0
NoAddr == 0
NoCaller == 0

\* Byte values the control characteristic can report: 0x00, 0x01 and an
\* anomalous non-zero value.
Bytes == {0, 1, 255}

\* A nil / non-nil pointer (*bluetooth.Device, *bluetooth.DeviceCharacteristic).
Nil == "nil"
Ptr == "ptr"

SessionOps == {"Fetch", "Read", "PowerOn", "PowerOff", "Disconnect"}

VARIABLES
    station,            \* address -> the BaseStation struct's fields
    connectedStations,  \* the package-level list of connected stations
    links,              \* address -> radio links open at the adapter
    reg,                \* address -> the byte the device's characteristic holds
    mutex,              \* address -> the task holding BaseStation.mutex, or NoTask
    task,               \* task -> its call, its position in it and what it saw
    lastOp,             \* address -> the last call completed on the device
    known,              \* the keys of Manager.stations
    isScanning,         \* Manager.isScanning
    stationsMutex,      \* Manager.stationsMutex: its writer and its readers
    caller              \* caller -> its Manager call and its position in it

sessionVars == <<station, connectedStations, links, reg, mutex, task, lastOp>>
managerVars == <<known, isScanning, stationsMutex, caller>>
vars == <<station, connectedStations, links, reg, mutex, task, lastOp,
          known, isScanning, stationsMutex, caller>>

\* The stations in range, the goroutines that run session calls, and the
\* goroutines that call the Manager.
Addrs == DOMAIN station
Tasks == DOMAIN task
Callers == DOMAIN caller

(* --------------------------- BaseStation ------------------------------ *)

\* A scan callback that builds its BaseStation values with PowerStateOff.
NewBaseStationOff(name) ==
    [Name |-> name, PowerState |-> PowerStateOff, device |-> Nil,
     characteristic |-> Nil, isConnected |-> FALSE, LastStateUpdate |-> 0]

\* The BaseStation value the scan callback builds: name, address, Unknown.
NewBaseStation(name) ==
    [Name |-> name, PowerState |-> PowerStateUnknown, device |-> Nil,
     characteristic |-> Nil, isConnected |-> FALSE, LastStateUpdate |-> 0]

\* time.Now() as read by a step on device d.  It is later than the stored
\* timestamp; timestamps are kept as one bit that flips when a later time
\* is stored.
Now(d) == 1 - station[d].LastStateUpdate

\* BaseStation.setPowerStateInternal
setPowerStateInternal(s, state, now) ==
    [s EXCEPT !.PowerState = state, !.LastStateUpdate = now]

\* An IsConnected that reports every station as connected.
IsConnectedAlways(s) == TRUE

\* BaseStation.IsConnected (the value it returns; it takes the read lock)
IsConnected(s) == s.isConnected /\ s.device # Nil

\* What one step on a device reads and writes: the station, its membership of
\* connectedStations, and its links at the adapter.
World(d) ==
    [s |-> station[d], inReg |-> d \in connectedStations, links |-> links[d]]

Commit(d, w) ==
    /\ station' = [station EXCEPT ![d] = w.s]
    /\ connectedStations' =
           IF w.inReg THEN connectedStations \cup {d}
                      ELSE connectedStations \ {d}
    /\ links' = [links EXCEPT ![d] = w.links]

(* ------------------------- the session calls --------------------------- *)

\* A task that is not inside any call.
IdleTask ==
    [pc |-> "idle", op |-> "none", dev |-> NoAddr, i |-> 0, tries |-> 0,
     err |-> "nil", last |-> "none", rb |-> -1, nw |-> 0, wrote |-> FALSE,
     clean |-> TRUE, todo |-> {}, parent |-> NoCaller]

\* What the transport calls can return: adapter.Connect; DiscoverServices and
\* DiscoverCharacteristics (an error or an empty list of either, or the
\* characteristic); WriteWithoutResponse (n = 1, n # 1 with a nil error, an
\* error); Read (an error, n # 1, one byte); device.Disconnect.
ConnectOutcomes == {"connOk", "connErr"}
DiscoveryOutcomes == {"discOk", "servicesErr", "noServices", "charsErr", "noChars"}
WriteOutcomes == {"writeOk", "writeShort", "writeErr"}
ReadOutcomes ==
    {[k |-> "readErr", b |-> 0], [k |-> "readShort", b |-> 0]}
        \cup {[k |-> "readOk", b |-> x] : x \in Bytes}
CloseOutcomes == {"closeOk", "closeErr"}

\* What a call has seen of the transport: the outcome of its last transport
\* call (last), the byte of its last successful read (rb), the number of
\* WriteWithoutResponse calls (nw), whether one of them returned without
\* error (wrote), and whether every transport call so far succeeded in full
\* (clean).
Logged(tk, event) ==
    [tk EXCEPT !.last = event,
               !.nw = @ + (IF event \in WriteOutcomes THEN 1 ELSE 0),
               !.wrote = @ \/ event \in {"writeOk", "writeShort"},
               !.clean = @ /\ event \in {"connOk", "discOk", "writeOk",
                                         "readOk", "closeOk"}]

\* disconnectInternal that forgets s.isConnected = false.
disconnectInternalKeepsFlag(w, now) ==
    [s |-> setPowerStateInternal(
               [w.s EXCEPT !.device = Nil, !.characteristic = Nil],
               PowerStateUnknown, now),
     inReg |-> FALSE,
     links |-> IF w.s.device # Nil THEN w.links - 1 ELSE w.links]

\* disconnectInternal that leaves connectedStations as it is.
disconnectInternalKeepsRegistry(w, now) ==
    [s |-> setPowerStateInternal(
               [w.s EXCEPT !.isConnected = FALSE, !.device = Nil,
                           !.characteristic = Nil],
               PowerStateUnknown, now),
     inReg |-> w.inReg,
     links |-> IF w.s.device # Nil THEN w.links - 1 ELSE w.links]

\* disconnectInternal that leaves PowerState and LastStateUpdate alone.
disconnectInternalKeepsState(w, now) ==
    [s |-> [w.s EXCEPT !.isConnected = FALSE, !.device = Nil,
                       !.characteristic = Nil],
     inReg |-> FALSE,
     links |-> IF w.s.device # Nil THEN w.links - 1 ELSE w.links]

\* disconnectInternal that drops the handle without device.Disconnect().
disconnectInternalKeepsLink(w, now) ==
    [s |-> setPowerStateInternal(
               [w.s EXCEPT !.isConnected = FALSE, !.device = Nil,
                           !.characteristic = Nil],
               PowerStateUnknown, now),
     inReg |-> FALSE,
     links |-> w.links]

\* disconnectInternal: close the link if there is a handle (the error of
\* Disconnect is dropped), clear the fields, drop the station from the list.
disconnectInternal(w, now) ==
    [s |-> setPowerStateInternal(
               [w.s EXCEPT !.isConnected = FALSE, !.device = Nil,
                           !.characteristic = Nil],
               PowerStateUnknown, now),
     inReg |-> FALSE,
     links |-> IF w.s.device # Nil THEN w.links - 1 ELSE w.links]

\* A failed connect that leaves the station in connectedStations.
ConnectFailedRegisters(w, now) ==
    [s |-> setPowerStateInternal(
               [w.s EXCEPT !.isConnected = FALSE, !.device = Nil,
                           !.characteristic = Nil],
               PowerStateUnknown, now),
     inReg |-> TRUE,
     links |-> w.links]

\* connectAndDiscoverInternal, adapter.Connect returned an error.
ConnectFailed(w, now) ==
    [w EXCEPT !.s = setPowerStateInternal(
                        [@ EXCEPT !.isConnected = FALSE, !.device = Nil,
                                  !.characteristic = Nil],
                        PowerStateUnknown, now)]

\* A successful connect that does not append to connectedStations.
ConnectSucceededUnregistered(w) ==
    [s |-> [w.s EXCEPT !.device = Ptr, !.isConnected = TRUE],
     inReg |-> w.inReg,
     links |-> w.links + 1]

\* connectAndDiscoverInternal, adapter.Connect returned a device.
ConnectSucceeded(w) ==
    [s |-> [w.s EXCEPT !.device = Ptr, !.isConnected = TRUE],
     inReg |-> TRUE,
     links |-> w.links + 1]

\* FetchInitialPowerState after connectAndDiscoverInternal returned e.
FetchAfterCad(tk, w, e) ==
    IF e = "nil"
    THEN [tk |-> [tk EXCEPT !.pc = "read"], w |-> w]
    ELSE [tk |-> [tk EXCEPT !.pc = "ret", !.err = e], w |-> w]

\* PowerOn / PowerOff after connectAndDiscoverInternal returned e in attempt i.
PowerAfterCad(tk, w, now, e) ==
    IF e = "nil"
    THEN [tk |-> [tk EXCEPT !.pc = "write"], w |-> w]
    ELSE IF tk.i = maxRetriesPower - 1
         THEN [tk |-> [tk EXCEPT !.pc = "ret", !.err = e], w |-> w]
         ELSE [tk |-> [tk EXCEPT !.pc = "cad", !.i = @ + 1],
               w |-> disconnectInternal(w, now)]

AfterCad(tk, w, now, e) ==
    IF tk.op = "Fetch" THEN FetchAfterCad(tk, w, e)
                       ELSE PowerAfterCad(tk, w, now, e)

\* A connectAndDiscoverInternal without its first check: it connects again
\* whatever the state of the station.
connectAndDiscoverInternalReconnects(tk, w, now, outcome) ==
    IF outcome = "connErr"
    THEN AfterCad(Logged(tk, outcome), ConnectFailed(w, now), now,
                  "ConnectionError")
    ELSE LET w2 == ConnectSucceeded(w)
             tk2 == Logged(tk, outcome)
         IN IF w2.s.characteristic = Nil
            THEN [tk |-> [tk2 EXCEPT !.pc = "disc", !.tries = 0], w |-> w2]
            ELSE AfterCad(tk2, w2, now, "nil")

\* connectAndDiscoverInternal up to its first discovery attempt; outcome is
\* what adapter.Connect returns if it is called.
connectAndDiscoverInternal(tk, w, now, outcome) ==
    IF w.s.isConnected /\ w.s.device # Nil /\ w.s.characteristic # Nil
    THEN AfterCad(tk, w, now, "nil")
    ELSE IF ~w.s.isConnected \/ w.s.device = Nil
         THEN IF outcome = "connErr"
              THEN AfterCad(Logged(tk, outcome), ConnectFailed(w, now), now,
                            "ConnectionError")
              ELSE LET w2 == ConnectSucceeded(w)
                       tk2 == Logged(tk, outcome)
                   IN IF w2.s.characteristic = Nil
                      THEN [tk |-> [tk2 EXCEPT !.pc = "disc", !.tries = 0],
                            w |-> w2]
                      ELSE AfterCad(tk2, w2, now, "nil")
         ELSE [tk |-> [tk EXCEPT !.pc = "disc", !.tries = 0], w |-> w]

\* The discovery loop ended with err != nil and the link is left open.
discoveryExhaustedKeepsLink(w, now) == w

\* The discovery loop ended with err != nil: disconnectInternal(station).
discoveryExhausted(w, now) == disconnectInternal(w, now)

\* One pass of the discovery loop: DiscoverServices then
\* DiscoverCharacteristics; tries is the loop variable.
discoveryAttempt(tk, w, now, outcome) ==
    IF outcome = "discOk"
    THEN AfterCad(Logged(tk, "discOk"),
                  [w EXCEPT !.s.characteristic = Ptr], now, "nil")
    ELSE IF tk.tries + 1 < maxRetriesDiscovery
         THEN [tk |-> [Logged(tk, "discErr") EXCEPT !.tries = @ + 1], w |-> w]
         ELSE AfterCad([Logged(tk, "discErr") EXCEPT !.tries = @ + 1],
                       discoveryExhausted(w, now), now, "DiscoveryError")

\* PowerOff sends the byte of PowerOn.
CommandByteOne(op) == 1

\* PowerOn sends the byte of PowerOff.
CommandByteZero(op) == 0

\* The command byte: PowerOn writes 0x01, PowerOff writes 0x00.
CommandByte(op) == IF op = "PowerOn" THEN 1 ELSE 0

\* PowerOn / PowerOff that retries a failed write on the same session.
powerWriteNoDisconnect(tk, w, now, outcome) ==
    IF outcome # "writeErr"
    THEN [tk |-> [Logged(tk, outcome) EXCEPT !.pc = "read"], w |-> w]
    ELSE IF tk.i + 1 < maxRetriesPower
         THEN [tk |-> [Logged(tk, outcome) EXCEPT !.pc = "cad", !.i = @ + 1],
               w |-> w]
         ELSE [tk |-> [Logged(tk, outcome) EXCEPT
                          !.pc = "ret", !.i = @ + 1, !.err = "WriteError"],
               w |-> w]

\* PowerOn / PowerOff after WriteWithoutResponse returned in attempt i.
powerWrite(tk, w, now, outcome) ==
    IF outcome # "writeErr"
    THEN [tk |-> [Logged(tk, outcome) EXCEPT !.pc = "read"], w |-> w]
    ELSE IF tk.i + 1 < maxRetriesPower
         THEN [tk |-> [Logged(tk, outcome) EXCEPT !.pc = "cad", !.i = @ + 1],
               w |-> disconnectInternal(w, now)]
         ELSE [tk |-> [Logged(tk, outcome) EXCEPT
                          !.pc = "ret", !.i = @ + 1, !.err = "WriteError"],
               w |-> disconnectInternal(w, now)]

\* readPowerStateInternal: whether it returns an error, and the station after.
readFails(s, outcome) == s.characteristic = Nil \/ outcome.k # "readOk"

\* readPowerStateInternal that keeps the old PowerState when the read fails.
readPowerStateInternalKeepsState(s, now, outcome) ==
    IF s.characteristic = Nil \/ outcome.k # "readOk"
    THEN s
    ELSE setPowerStateInternal(
             s,
             IF outcome.b # PowerStateOff THEN PowerStateOn ELSE PowerStateOff,
             now)

\* readPowerStateInternal that takes only 0x00 and 0x01 for a state.
readPowerStateInternalStrict(s, now, outcome) ==
    IF s.characteristic = Nil
    THEN s
    ELSE IF outcome.k # "readOk" \/ outcome.b \notin {0, 1}
         THEN setPowerStateInternal(s, PowerStateUnknown, now)
         ELSE setPowerStateInternal(s, outcome.b, now)

readPowerStateInternal(s, now, outcome) ==
    IF s.characteristic = Nil
    THEN s
    ELSE IF outcome.k # "readOk"
         THEN setPowerStateInternal(s, PowerStateUnknown, now)
         ELSE setPowerStateInternal(
                  s,
                  IF outcome.b # PowerStateOff THEN PowerStateOn
                                               ELSE PowerStateOff,
                  now)

\* Every caller returns the error of readPowerStateInternal.
AfterReadPropagates(tk, failed) ==
    IF failed
    THEN [tk EXCEPT !.pc = "ret", !.err = "ReadError"]
    ELSE [tk EXCEPT !.pc = "ret", !.err = "nil"]

\* What the call returns after readPowerStateInternal: FetchInitialPowerState
\* and ReadPowerState return its error, PowerOn / PowerOff log it, return nil.
AfterRead(tk, failed) ==
    IF tk.op \in {"Fetch", "Read"} /\ failed
    THEN [tk EXCEPT !.pc = "ret", !.err = "ReadError"]
    ELSE [tk EXCEPT !.pc = "ret", !.err = "nil"]

\* A ReadPowerState that reads without looking at the connection.
readPowerStateCheckSkipped(tk, s) == [tk EXCEPT !.pc = "read"]

\* ReadPowerState's checks before it reads.
readPowerStateCheck(tk, s) ==
    IF ~s.isConnected \/ s.device = Nil
    THEN [tk EXCEPT !.pc = "ret", !.err = "NotConnected"]
    ELSE IF s.characteristic = Nil
         THEN [tk EXCEPT !.pc = "ret", !.err = "NoCharacteristic"]
         ELSE [tk EXCEPT !.pc = "read"]

\* A Lock() that never waits.
CanLockAlways(d) == TRUE

\* station.mutex.Lock() returns when no other task holds the mutex.
CanLock(d) == mutex[d] = NoTask

\* Where a call stands once it holds the mutex.
EntryPc(op) ==
    CASE op \in {"Fetch", "PowerOn", "PowerOff"} -> "cad"
      [] op = "Read" -> "rchk"
      [] OTHER -> "dis"

\* The call completed on a device, as the next call on it finds it: PowerOn
\* or PowerOff when it met no transport error and read back the byte the
\* device holds; a FetchInitialPowerState that returned nil, with the state
\* its byte stands for; "other" for every other call.  Before any call has
\* completed on a station the Manager inserted, the value is "none".
Summary(tk) ==
    IF tk.op \in {"PowerOn", "PowerOff"} /\ tk.err = "nil" /\ tk.clean
    THEN tk.op
    ELSE IF tk.op = "Fetch" /\ tk.err = "nil"
         THEN (IF tk.rb = 0 THEN "FetchOff" ELSE "FetchOn")
         ELSE "other"

(* ------------------------------ actions -------------------------------- *)

\* A goroutine calls FetchInitialPowerState, ReadPowerState, PowerOn, PowerOff
\* or DisconnectStation on a station.
Call(t, op, d) ==
    /\ task[t].pc = "idle"
    /\ task' = [task EXCEPT ![t] = [IdleTask EXCEPT !.pc = "wait", !.op = op,
                                                    !.dev = d]]
    /\ UNCHANGED <<station, connectedStations, links, reg, mutex, lastOp>>
    /\ UNCHANGED managerVars

\* A call that goes on without holding the station's mutex.
LockNotHeld(t) ==
    /\ task[t].pc = "wait"
    /\ task' = [task EXCEPT ![t].pc = EntryPc(task[t].op)]
    /\ UNCHANGED <<station, connectedStations, links, reg, mutex, lastOp>>
    /\ UNCHANGED managerVars

\* station.mutex.Lock()
Lock(t) ==
    /\ task[t].pc = "wait"
    /\ CanLock(task[t].dev)
    /\ mutex' = [mutex EXCEPT ![task[t].dev] = t]
    /\ task' = [task EXCEPT ![t].pc = EntryPc(task[t].op)]
    /\ UNCHANGED <<station, connectedStations, links, reg, lastOp>>
    /\ UNCHANGED managerVars

\* connectAndDiscoverInternal from its entry to its first discovery attempt.
ConnectAndDiscover(t) ==
    /\ task[t].pc = "cad"
    /\ LET tk == task[t]
           d == tk.dev
       IN \E outcome \in ConnectOutcomes :
            LET r == connectAndDiscoverInternal(tk, World(d), Now(d), outcome)
            IN /\ Commit(d, r.w)
               /\ task' = [task EXCEPT ![t] = r.tk]
    /\ UNCHANGED <<reg, mutex, lastOp>>
    /\ UNCHANGED managerVars

\* One discovery attempt of connectAndDiscoverInternal.
Discover(t) ==
    /\ task[t].pc = "disc"
    /\ LET tk == task[t]
           d == tk.dev
       IN \E outcome \in DiscoveryOutcomes :
            LET r == discoveryAttempt(tk, World(d), Now(d), outcome)
            IN /\ Commit(d, r.w)
               /\ task' = [task EXCEPT ![t] = r.tk]
    /\ UNCHANGED <<reg, mutex, lastOp>>
    /\ UNCHANGED managerVars

\* characteristic.WriteWithoutResponse of PowerOn / PowerOff.
Write(t) ==
    /\ task[t].pc = "write"
    /\ LET tk == task[t]
           d == tk.dev
       IN \E outcome \in WriteOutcomes :
            LET r == powerWrite(tk, World(d), Now(d), outcome)
            IN /\ Commit(d, r.w)
               /\ task' = [task EXCEPT ![t] = r.tk]
               /\ reg' = IF outcome = "writeOk"
                         THEN [reg EXCEPT ![d] = CommandByte(tk.op)]
                         ELSE reg
    /\ UNCHANGED <<mutex, lastOp>>
    /\ UNCHANGED managerVars

\* ReadPowerState between taking the mutex and reading.
ReadCheck(t) ==
    /\ task[t].pc = "rchk"
    /\ task' = [task EXCEPT ![t] = readPowerStateCheck(@, station[@.dev])]
    /\ UNCHANGED <<station, connectedStations, links, reg, mutex, lastOp>>
    /\ UNCHANGED managerVars

\* readPowerStateInternal, called by FetchInitialPowerState, ReadPowerState,
\* PowerOn and PowerOff.
Read(t) ==
    /\ task[t].pc = "read"
    /\ LET tk == task[t]
           d == tk.dev
       IN \E outcome \in ReadOutcomes :
            LET called == station[d].characteristic # Nil
                tk2 == IF ~called THEN tk
                       ELSE IF outcome.k = "readOk"
                            THEN [Logged(tk, outcome.k) EXCEPT
                                     !.rb = outcome.b,
                                     !.clean = @ /\ outcome.b = reg[d]]
                            ELSE Logged(tk, outcome.k)
            IN /\ station' = [station EXCEPT
                                 ![d] = readPowerStateInternal(@, Now(d), outcome)]
               /\ task' = [task EXCEPT
                              ![t] = AfterRead(tk2, readFails(station[d], outcome))]
    /\ UNCHANGED <<connectedStations, links, reg, mutex, lastOp>>
    /\ UNCHANGED managerVars

\* DisconnectStation's disconnectInternal.
Disconnect(t) ==
    /\ task[t].pc = "dis"
    /\ LET tk == task[t]
           d == tk.dev
       IN \E outcome \in CloseOutcomes :
            /\ Commit(d, disconnectInternal(World(d), Now(d)))
            /\ task' = [task EXCEPT
                           ![t] = [(IF station[d].device # Nil
                                    THEN Logged(tk, outcome) ELSE tk)
                                   EXCEPT !.pc = "ret"]]
    /\ UNCHANGED <<reg, mutex, lastOp>>
    /\ UNCHANGED managerVars

\* The call returns: the deferred station.mutex.Unlock() runs, and in a
\* goroutine started by the Manager the deferred wg.Done().
Return(t) ==
    /\ task[t].pc = "ret"
    /\ LET tk == task[t]
           d == tk.dev
       IN /\ mutex' = [mutex EXCEPT ![d] = NoTask]
          /\ lastOp' = [lastOp EXCEPT ![d] = Summary(tk)]
          /\ task' = [task EXCEPT
                         ![t] = IF tk.op = "DisconnectAll"
                                THEN [IdleTask EXCEPT !.pc = "da",
                                                      !.op = "DisconnectAll",
                                                      !.todo = tk.todo]
                                ELSE IdleTask]
          /\ caller' = IF tk.parent = NoCaller THEN caller
                        ELSE [caller EXCEPT ![tk.parent].wg = @ \ {t}]
    /\ UNCHANGED <<station, connectedStations, links, reg>>
    /\ UNCHANGED <<known, isScanning, stationsMutex>>

\* DisconnectAllStations copies connectedStations under its mutex.
CallDisconnectAll(t) ==
    /\ task[t].pc = "idle"
    /\ task' = [task EXCEPT ![t] = [IdleTask EXCEPT !.pc = "da",
                                                    !.op = "DisconnectAll",
                                                    !.todo = connectedStations]]
    /\ UNCHANGED <<station, connectedStations, links, reg, mutex, lastOp>>
    /\ UNCHANGED managerVars

\* DisconnectAllStations calls DisconnectStation on the next station of its
\* copy.
DisconnectAllNext(t) ==
    /\ task[t].pc = "da"
    /\ task[t].todo # {}
    /\ \E d \in task[t].todo :
         task' = [task EXCEPT ![t] = [@ EXCEPT !.pc = "wait", !.dev = d,
                                               !.todo = @ \ {d}]]
    /\ UNCHANGED <<station, connectedStations, links, reg, mutex, lastOp>>
    /\ UNCHANGED managerVars

\* DisconnectAllStations returns.
DisconnectAllDone(t) ==
    /\ task[t].pc = "da"
    /\ task[t].todo = {}
    /\ task' = [task EXCEPT ![t] = IdleTask]
    /\ UNCHANGED <<station, connectedStations, links, reg, mutex, lastOp>>
    /\ UNCHANGED managerVars

(* --------------------------- specification ----------------------------- *)

\* The session layer alone: NumAddrs stations exist as the scan callback
\* built them, MaxTasks goroutines call the package's functions on them, and
\* there is no Manager call.
Init ==
    /\ station = [d \in 1 .. NumAddrs |-> NewBaseStation("LHB-A")]
    /\ connectedStations = {}
    /\ links = [d \in 1 .. NumAddrs |-> 0]
    /\ reg \in [1 .. NumAddrs -> Bytes]
    /\ mutex = [d \in 1 .. NumAddrs |-> NoTask]
    /\ task = [t \in 1 .. MaxTasks |-> IdleTask]
    /\ lastOp = [d \in 1 .. NumAddrs |-> "other"]
    /\ known = 1 .. NumAddrs
    /\ isScanning = FALSE
    /\ stationsMutex = [w |-> NoCaller, r |-> {}]
    /\ caller = <<>>

Next ==
    \/ \E t \in Tasks, op \in SessionOps, d \in Addrs : Call(t, op, d)
    \/ \E t \in Tasks : Lock(t)
    \/ \E t \in Tasks : ConnectAndDiscover(t)
    \/ \E t \in Tasks : Discover(t)
    \/ \E t \in Tasks : Write(t)
    \/ \E t \in Tasks : ReadCheck(t)
    \/ \E t \in Tasks : Read(t)
    \/ \E t \in Tasks : Disconnect(t)
    \/ \E t \in Tasks : Return(t)
    \/ \E t \in Tasks : CallDisconnectAll(t)
    \/ \E t \in Tasks : DisconnectAllNext(t)
    \/ \E t \in Tasks : DisconnectAllDone(t)

Spec == Init /\ [][Next]_vars

(* ------------------------------ Manager -------------------------------- *)

\* The names a station can advertise.
Names == {"LHB-A", "LHB-B"}

\* A goroutine that is not inside any Manager call.  err is what the call
\* returns; saw is the value of isScanning the call found at its check and
\* admitted whether it set the flag; found is what ScanForDuration returned;
\* todo is the rest of the loop the call is in, toFetch the stationsToFetch
\* slice, wg the goroutines its WaitGroup still counts, late the goroutines
\* that had not finished when its deadline expired, snap the StationInfo
\* list built so far; target is the address argument of PowerOnStation /
\* PowerOffStation, errors the errors map of PowerOnAllStations /
\* PowerOffAllStations and n the count its error message carries.
IdleCaller ==
    [pc |-> "idle", op |-> "none", err |-> "nil", saw |-> FALSE,
     admitted |-> FALSE, found |-> <<>>, todo |-> {}, toFetch |-> {},
     toRead |-> {}, wg |-> {}, late |-> {}, snap |-> <<>>,
     target |-> NoAddr, errors |-> <<>>, n |-> 0]

\* m.stationsMutex.Lock() / RLock() can return.
CanLockMap == stationsMutex.w = NoCaller /\ stationsMutex.r = {}
CanRLockMap == stationsMutex.w = NoCaller

\* GetPowerState / IsConnected that read without the station's read lock.
CanRLockAlways(d) == TRUE

\* BaseStation.GetPowerState / IsConnected take the station's read lock: they
\* return when no call holds the station's mutex.
CanRLock(d) == mutex[d] = NoTask

\* A scan that ignores isScanning.
scanAdmittedAlways(flag) == TRUE

\* ScanAndFetchStations: the call goes on to scan if isScanning is not set.
scanAdmitted(flag) == ~flag

\* The deferred function is registered on entry, before the check.
deferredClearAlways(cl) == TRUE

\* A call that returns without clearing isScanning.
deferredClearNever(cl) == FALSE

\* ScanAndFetchStations registers the deferred function that clears
\* isScanning after the check, so it runs only in a call that set the flag.
deferredClear(cl) == cl.admitted

\* The idle goroutines that run the fetches of the stations in fetch.
FreeTasks == {t \in Tasks : task[t].pc = "idle"}

Spawn(fetch, op, c) ==
    LET slots == CHOOSE S \in SUBSET FreeTasks : Cardinality(S) = Cardinality(fetch)
        assign == CHOOSE f \in [slots -> fetch] : \A a, b \in slots : a # b => f[a] # f[b]
    IN [t \in Tasks |->
           IF t \in slots
           THEN [IdleTask EXCEPT !.pc = "wait", !.op = op, !.dev = assign[t],
                                 !.parent = c]
           ELSE task[t]]

\* ScanAndFetchStations: the check and the setting of isScanning under the
\* write lock.
ScanBegin(c) ==
    /\ caller[c].pc = "idle"
    /\ CanLockMap
    /\ IF scanAdmitted(isScanning)
       THEN /\ isScanning' = TRUE
            /\ caller' = [caller EXCEPT ![c] = [IdleCaller EXCEPT
                             !.pc = "scanning", !.op = "Scan",
                             !.saw = isScanning, !.admitted = TRUE]]
       ELSE /\ isScanning' = isScanning
            /\ caller' = [caller EXCEPT ![c] = [IdleCaller EXCEPT
                             !.pc = "snap", !.op = "Scan", !.saw = isScanning,
                             !.err = "AlreadyScanning"]]
    /\ UNCHANGED <<known, stationsMutex>>
    /\ UNCHANGED sessionVars

\* A failed scan whose partial results are merged all the same.
ScanFailedMerges(c) ==
    /\ caller[c].pc = "scanning"
    /\ \E D \in SUBSET Addrs : \E f \in [D -> Names] :
         caller' = [caller EXCEPT ![c] = [@ EXCEPT !.pc = "merge",
                                                   !.err = "ScanError",
                                                   !.found = f]]
    /\ UNCHANGED <<known, isScanning, stationsMutex>>
    /\ UNCHANGED sessionVars

\* time.Sleep(1s), then bluetooth.ScanForDuration returns an error.
ScanFailed(c) ==
    /\ caller[c].pc = "scanning"
    /\ caller' = [caller EXCEPT ![c] = [@ EXCEPT !.pc = "snap",
                                                 !.err = "ScanError"]]
    /\ UNCHANGED <<known, isScanning, stationsMutex>>
    /\ UNCHANGED sessionVars

\* time.Sleep(1s), then bluetooth.ScanForDuration returns stations: one per
\* address seen, each with the name it advertised.
ScanFound(c) ==
    /\ caller[c].pc = "scanning"
    /\ \E D \in SUBSET Addrs : \E f \in [D -> Names] :
         caller' = [caller EXCEPT ![c] = [@ EXCEPT !.pc = "merge", !.found = f]]
    /\ UNCHANGED <<known, isScanning, stationsMutex>>
    /\ UNCHANGED sessionVars

\* m.stationsMutex.Lock() before the merge loop.
MergeBegin(c) ==
    /\ caller[c].pc = "merge"
    /\ CanLockMap
    /\ stationsMutex' = [stationsMutex EXCEPT !.w = c]
    /\ caller' = [caller EXCEPT ![c] = [@ EXCEPT !.pc = "merging",
                                                 !.todo = DOMAIN caller[c].found]]
    /\ UNCHANGED <<known, isScanning>>
    /\ UNCHANGED sessionVars

\* One pass of the merge loop on a station the map holds: the name is
\* updated, and the station is to be fetched if IsConnected() is false.
MergeKnown(c) ==
    /\ caller[c].pc = "merging"
    /\ \E d \in caller[c].todo :
         /\ d \in known
         /\ CanRLock(d)
         /\ station' = [station EXCEPT ![d].Name = caller[c].found[d]]
         /\ caller' = [caller EXCEPT ![c] = [@ EXCEPT
                          !.todo = @ \ {d},
                          !.toFetch = IF IsConnected(station[d]) THEN @
                                      ELSE @ \cup {d}]]
    /\ UNCHANGED <<known, isScanning, stationsMutex>>
    /\ UNCHANGED <<connectedStations, links, reg, mutex, task, lastOp>>

\* One pass of the merge loop on a station the map does not hold: a copy of
\* the scanned BaseStation is inserted and is to be fetched.
MergeNew(c) ==
    /\ caller[c].pc = "merging"
    /\ \E d \in caller[c].todo :
         /\ d \notin known
         /\ station' = [station EXCEPT ![d] = NewBaseStation(caller[c].found[d])]
         /\ known' = known \cup {d}
         /\ caller' = [caller EXCEPT ![c] = [@ EXCEPT
                          !.todo = @ \ {d}, !.toFetch = @ \cup {d}]]
    /\ UNCHANGED <<isScanning, stationsMutex>>
    /\ UNCHANGED <<connectedStations, links, reg, mutex, task, lastOp>>

\* A merge that ends by dropping from the map the stations the scan did not
\* return.
MergeEndPrunes(c) ==
    /\ caller[c].pc = "merging"
    /\ caller[c].todo = {}
    /\ Cardinality(FreeTasks) >= Cardinality(caller[c].toFetch)
    /\ stationsMutex' = [stationsMutex EXCEPT !.w = NoCaller]
    /\ task' = Spawn(caller[c].toFetch, "Fetch", c)
    /\ caller' = [caller EXCEPT ![c] = [@ EXCEPT
                     !.pc = IF caller[c].toFetch = {} THEN "snap" ELSE "fetchwait",
                     !.wg = {t \in Tasks : task'[t].parent = c},
                     !.toFetch = {}, !.found = <<>>]]
    /\ known' = known \cap DOMAIN caller[c].found
    /\ isScanning' = isScanning
    /\ UNCHANGED <<station, connectedStations, links, reg, mutex, lastOp>>

\* A merge that starts its goroutines without releasing the map's lock.
MergeEndKeepsLock(c) ==
    /\ caller[c].pc = "merging"
    /\ caller[c].todo = {}
    /\ Cardinality(FreeTasks) >= Cardinality(caller[c].toFetch)
    /\ task' = Spawn(caller[c].toFetch, "Fetch", c)
    /\ caller' = [caller EXCEPT ![c] = [@ EXCEPT
                     !.pc = IF caller[c].toFetch = {} THEN "snap" ELSE "fetchwait",
                     !.wg = {t \in Tasks : task'[t].parent = c},
                     !.toFetch = {}, !.found = <<>>]]
    /\ UNCHANGED <<known, isScanning, stationsMutex>>
    /\ UNCHANGED <<station, connectedStations, links, reg, mutex, lastOp>>

\* The merge loop is over: m.stationsMutex.Unlock(), and one goroutine per
\* station of stationsToFetch is started.
MergeEnd(c) ==
    /\ caller[c].pc = "merging"
    /\ caller[c].todo = {}
    /\ Cardinality(FreeTasks) >= Cardinality(caller[c].toFetch)
    /\ stationsMutex' = [stationsMutex EXCEPT !.w = NoCaller]
    /\ task' = Spawn(caller[c].toFetch, "Fetch", c)
    /\ caller' = [caller EXCEPT ![c] = [@ EXCEPT
                     !.pc = IF caller[c].toFetch = {} THEN "snap" ELSE "fetchwait",
                     !.wg = {t \in Tasks : task'[t].parent = c},
                     !.toFetch = {}, !.found = <<>>]]
    /\ UNCHANGED <<known, isScanning>>
    /\ UNCHANGED <<station, connectedStations, links, reg, mutex, lastOp>>

\* select: waitChan is closed, every goroutine has called wg.Done().
WaitDone(c) ==
    /\ caller[c].pc = "fetchwait"
    /\ caller[c].wg = {}
    /\ caller' = [caller EXCEPT ![c].pc = "snap"]
    /\ UNCHANGED <<known, isScanning, stationsMutex>>
    /\ UNCHANGED sessionVars

\* The deadline cancels the goroutines that have not finished.
OutlivedCancelled(tk) == [tk EXCEPT !.parent = NoCaller, !.pc = "cancelled"]

\* A goroutine whose caller stopped waiting: it runs on, and its wg.Done()
\* is seen by nobody.
Outlived(tk) == [tk EXCEPT !.parent = NoCaller]

\* select: time.After fires first.  The goroutines run on; nothing waits for
\* their WaitGroup any more.
WaitTimeout(c) ==
    /\ caller[c].pc = "fetchwait"
    /\ caller[c].wg # {}
    /\ caller' = [caller EXCEPT ![c] = [@ EXCEPT !.pc = "snap", !.wg = {},
                                                 !.late = caller[c].wg]]
    /\ task' = [t \in Tasks |->
                   IF t \in caller[c].wg THEN Outlived(task[t]) ELSE task[t]]
    /\ UNCHANGED <<known, isScanning, stationsMutex>>
    /\ UNCHANGED <<station, connectedStations, links, reg, mutex, lastOp>>

\* A goroutine calls GetStationInfo on its own.
CallGetStationInfo(c) ==
    /\ caller[c].pc = "idle"
    /\ caller' = [caller EXCEPT ![c] = [IdleCaller EXCEPT !.pc = "snap",
                                                          !.op = "Info"]]
    /\ UNCHANGED <<known, isScanning, stationsMutex>>
    /\ UNCHANGED sessionVars

\* GetStationInfo: m.stationsMutex.RLock().
InfoBegin(c) ==
    /\ caller[c].pc = "snap"
    /\ CanRLockMap
    /\ stationsMutex' = [stationsMutex EXCEPT !.r = @ \cup {c}]
    /\ caller' = [caller EXCEPT ![c] = [@ EXCEPT !.pc = "snapping",
                                                 !.todo = known,
                                                 !.snap = <<>>]]
    /\ UNCHANGED <<known, isScanning>>
    /\ UNCHANGED sessionVars

\* GetStationInfo: one pass of the loop, stationPtr.GetPowerState() included.
InfoRead(c) ==
    /\ caller[c].pc = "snapping"
    /\ \E d \in caller[c].todo :
         /\ CanRLock(d)
         /\ caller' = [caller EXCEPT ![c] = [@ EXCEPT
                          !.todo = @ \ {d},
                          !.snap = @ @@ (d :> [name |-> station[d].Name,
                                               powerState |-> station[d].PowerState])]]
    /\ UNCHANGED <<known, isScanning, stationsMutex>>
    /\ UNCHANGED sessionVars

\* GetStationInfo: the loop is over, the deferred RUnlock() runs.
InfoEnd(c) ==
    /\ caller[c].pc = "snapping"
    /\ caller[c].todo = {}
    /\ stationsMutex' = [stationsMutex EXCEPT !.r = @ \ {c}]
    /\ caller' = [caller EXCEPT ![c].pc = "ret"]
    /\ UNCHANGED <<known, isScanning>>
    /\ UNCHANGED sessionVars

\* The Manager call returns; in ScanAndFetchStations the deferred function, if
\* registered, takes the write lock and clears isScanning.
ManagerReturn(c) ==
    /\ caller[c].pc = "ret"
    /\ IF caller[c].op = "Scan" /\ deferredClear(caller[c])
       THEN CanLockMap /\ isScanning' = FALSE
       ELSE isScanning' = isScanning
    /\ caller' = [caller EXCEPT ![c] = IdleCaller]
    /\ UNCHANGED <<known, stationsMutex>>
    /\ UNCHANGED sessionVars

\* The Manager after NewManager: the map is empty, NumMgrAddrs stations are
\* in range, each holding 0x00, and MaxCallers goroutines call the Manager.
InitMgr ==
    /\ station = [d \in 1 .. NumMgrAddrs |-> NewBaseStation("LHB-A")]
    /\ connectedStations = {}
    /\ links = [d \in 1 .. NumMgrAddrs |-> 0]
    /\ reg = [d \in 1 .. NumMgrAddrs |-> 0]
    /\ mutex = [d \in 1 .. NumMgrAddrs |-> NoTask]
    /\ task = [t \in 1 .. MaxMgrTasks |-> IdleTask]
    /\ lastOp = [d \in 1 .. NumMgrAddrs |-> "none"]
    /\ known = {}
    /\ isScanning = FALSE
    /\ stationsMutex = [w |-> NoCaller, r |-> {}]
    /\ caller = [c \in 1 .. MaxCallers |-> IdleCaller]

NextMgr ==
    \/ \E c \in Callers : ScanBegin(c)
    \/ \E c \in Callers : ScanFailed(c)
    \/ \E c \in Callers : ScanFound(c)
    \/ \E c \in Callers : MergeBegin(c)
    \/ \E c \in Callers : MergeKnown(c)
    \/ \E c \in Callers : MergeNew(c)
    \/ \E c \in Callers : MergeEnd(c)
    \/ \E c \in Callers : WaitDone(c)
    \/ \E c \in Callers : WaitTimeout(c)
    \/ \E c \in Callers : CallGetStationInfo(c)
    \/ \E c \in Callers : InfoBegin(c)
    \/ \E c \in Callers : InfoRead(c)
    \/ \E c \in Callers : InfoEnd(c)
    \/ \E c \in Callers : ManagerReturn(c)
    \/ \E t \in Tasks : Lock(t)
    \/ \E t \in Tasks : ConnectAndDiscover(t)
    \/ \E t \in Tasks : Discover(t)
    \/ \E t \in Tasks : Read(t)
    \/ \E t \in Tasks : Return(t)

SpecMgr == InitMgr /\ [][NextMgr]_vars

(* ----------------------- CheckAllStationStatuses ----------------------- *)

\* The goroutines a bulk call starts: jobs maps each station to the session
\* call its goroutine makes.
SpawnFor(jobs, c) ==
    LET slots == CHOOSE S \in SUBSET FreeTasks :
                     Cardinality(S) = Cardinality(DOMAIN jobs)
        assign == CHOOSE f \in [slots -> DOMAIN jobs] :
                     \A a, b \in slots : a # b => f[a] # f[b]
    IN [t \in Tasks |->
           IF t \in slots
           THEN [IdleTask EXCEPT !.pc = "wait", !.op = jobs[assign[t]],
                                 !.dev = assign[t], !.parent = c]
           ELSE task[t]]

\* CheckAllStationStatuses: m.stationsMutex.RLock() before the loop.
CheckBegin(c) ==
    /\ caller[c].pc = "idle"
    /\ CanRLockMap
    /\ stationsMutex' = [stationsMutex EXCEPT !.r = @ \cup {c}]
    /\ caller' = [caller EXCEPT ![c] = [IdleCaller EXCEPT
                     !.pc = "checking", !.op = "CheckAll", !.todo = known]]
    /\ UNCHANGED <<known, isScanning>>
    /\ UNCHANGED sessionVars

\* One pass of the loop: the station goes to stationsToRead if IsConnected()
\* is true and to stationsToFetch if not.
CheckClassify(c) ==
    /\ caller[c].pc = "checking"
    /\ \E d \in caller[c].todo :
         /\ CanRLock(d)
         /\ caller' = [caller EXCEPT ![c] = [@ EXCEPT
                          !.todo = @ \ {d},
                          !.toRead = IF IsConnected(station[d])
                                     THEN @ \cup {d} ELSE @,
                          !.toFetch = IF IsConnected(station[d])
                                      THEN @ ELSE @ \cup {d}]]
    /\ UNCHANGED <<known, isScanning, stationsMutex>>
    /\ UNCHANGED sessionVars

\* The loop is over: RUnlock(); with nothing to do the call goes to its
\* snapshot, else it starts a ReadPowerState per station of stationsToRead
\* and a FetchInitialPowerState per station of stationsToFetch.
CheckEnd(c) ==
    /\ caller[c].pc = "checking"
    /\ caller[c].todo = {}
    /\ LET jobs == [d \in caller[c].toRead \cup caller[c].toFetch |->
                       IF d \in caller[c].toRead THEN "Read" ELSE "Fetch"]
       IN /\ Cardinality(FreeTasks) >= Cardinality(DOMAIN jobs)
          /\ task' = SpawnFor(jobs, c)
          /\ caller' = [caller EXCEPT ![c] = [@ EXCEPT
                           !.pc = IF DOMAIN jobs = {} THEN "snap"
                                                      ELSE "fetchwait",
                           !.wg = {t \in Tasks : task'[t].parent = c},
                           !.toRead = {}, !.toFetch = {}]]
    /\ stationsMutex' = [stationsMutex EXCEPT !.r = @ \ {c}]
    /\ UNCHANGED <<known, isScanning>>
    /\ UNCHANGED <<station, connectedStations, links, reg, mutex, lastOp>>

\* The two bulk calls with a deadline: one goroutine calls
\* ScanAndFetchStations, CheckAllStationStatuses and GetStationInfo in any
\* order.
InitBulk ==
    /\ station = [d \in 1 .. NumMgrAddrs |-> NewBaseStation("LHB-A")]
    /\ connectedStations = {}
    /\ links = [d \in 1 .. NumMgrAddrs |-> 0]
    /\ reg = [d \in 1 .. NumMgrAddrs |-> 0]
    /\ mutex = [d \in 1 .. NumMgrAddrs |-> NoTask]
    /\ task = [t \in 1 .. MaxMgrTasks |-> IdleTask]
    /\ lastOp = [d \in 1 .. NumMgrAddrs |-> "none"]
    /\ known = {}
    /\ isScanning = FALSE
    /\ stationsMutex = [w |-> NoCaller, r |-> {}]
    /\ caller = <<IdleCaller>>

NextBulk ==
    \/ NextMgr
    \/ \E c \in Callers : CheckBegin(c)
    \/ \E c \in Callers : CheckClassify(c)
    \/ \E c \in Callers : CheckEnd(c)
    \/ \E t \in Tasks : ReadCheck(t)

\* Every transport call returns and every goroutine is scheduled: a step of
\* a session call that is possible is taken, and a goroutine that waits for
\* a station's mutex gets it if the mutex is released again and again.
BulkFairness ==
    \A t \in 1 .. MaxMgrTasks :
        /\ SF_vars(Lock(t))
        /\ WF_vars(ConnectAndDiscover(t))
        /\ WF_vars(Discover(t))
        /\ WF_vars(ReadCheck(t))
        /\ WF_vars(Read(t))
        /\ WF_vars(Return(t))

SpecBulk == InitBulk /\ [][NextBulk]_vars /\ BulkFairness

\* A step of ScanAndFetchStations past its check, other than the two the
\* call does not take by itself (ScanForDuration failing, the deadline).
ScanStep(c) ==
    \/ ScanFound(c)
    \/ MergeBegin(c)
    \/ MergeKnown(c)
    \/ MergeNew(c)
    \/ MergeEnd(c)
    \/ WaitDone(c)
    \/ InfoBegin(c)
    \/ InfoRead(c)
    \/ InfoEnd(c)
    \/ ManagerReturn(c)

\* The goroutine that calls the Manager is scheduled too: ScanForDuration
\* returns, and a step of the call that stays possible is taken.
ScanFairness == \A c \in {1} : WF_vars(ScanStep(c))

SpecScanLive ==
    InitBulk /\ [][NextBulk]_vars /\ BulkFairness /\ ScanFairness

\* The status check next to a shutdown: the map holds NumCheckAddrs stations
\* that an earlier scan put there and could not connect to; one goroutine
\* calls CheckAllStationStatuses again and again, and another one calls
\* DisconnectAllStations (Manager.Shutdown).
InitCheck ==
    /\ station = [d \in 1 .. NumCheckAddrs |-> NewBaseStation("LHB-A")]
    /\ connectedStations = {}
    /\ links = [d \in 1 .. NumCheckAddrs |-> 0]
    /\ reg = [d \in 1 .. NumCheckAddrs |-> 0]
    /\ mutex = [d \in 1 .. NumCheckAddrs |-> NoTask]
    /\ task = [t \in 1 .. NumCheckAddrs + 1 |-> IdleTask]
    /\ lastOp = [d \in 1 .. NumCheckAddrs |-> "other"]
    /\ known = 1 .. NumCheckAddrs
    /\ isScanning = FALSE
    /\ stationsMutex = [w |-> NoCaller, r |-> {}]
    /\ caller = <<IdleCaller>>

NextCheck ==
    \/ \E c \in Callers : CheckBegin(c)
    \/ \E c \in Callers : CheckClassify(c)
    \/ \E c \in Callers : CheckEnd(c)
    \/ \E c \in Callers : WaitDone(c)
    \/ \E c \in Callers : WaitTimeout(c)
    \/ \E c \in Callers : InfoBegin(c)
    \/ \E c \in Callers : InfoRead(c)
    \/ \E c \in Callers : InfoEnd(c)
    \/ \E c \in Callers : ManagerReturn(c)
    \/ \E t \in Tasks : Lock(t)
    \/ \E t \in Tasks : ConnectAndDiscover(t)
    \/ \E t \in Tasks : Discover(t)
    \/ \E t \in Tasks : ReadCheck(t)
    \/ \E t \in Tasks : Read(t)
    \/ \E t \in Tasks : Disconnect(t)
    \/ \E t \in Tasks : Return(t)
    \/ \E t \in Tasks : CallDisconnectAll(t)
    \/ \E t \in Tasks : DisconnectAllNext(t)
    \/ \E t \in Tasks : DisconnectAllDone(t)

SpecCheck == InitCheck /\ [][NextCheck]_vars

(* --------------------------- the power calls --------------------------- *)

SingleOps == {"PowerOnStation", "PowerOffStation"}
AllOps == {"PowerOnAllStations", "PowerOffAllStations"}

\* The session call behind a Manager call.
SessionCall(op) ==
    IF op \in {"PowerOnStation", "PowerOnAllStations"} THEN "PowerOn"
                                                        ELSE "PowerOff"

\* A lookup that finds every address.
lookupFailsNever(address) == FALSE

\* PowerOnStation / PowerOffStation: !ok || stationPtr == nil
lookupFails(address) == address \notin known

\* A goroutine that drops the error of its session call.
recordErrorNever(errors, d, err) == errors

\* PowerOnAllStations / PowerOffAllStations: errors[s.Address.String()] = err
\* if err != nil.
recordError(errors, d, err) ==
    IF err # "nil"
    THEN [a \in DOMAIN errors \cup {d} |-> IF a = d THEN err ELSE errors[a]]
    ELSE errors

\* PowerOnStation / PowerOffStation: the lookup under the map's read lock,
\* then the not-found error or the call of bluetooth.PowerOn / PowerOff.
PowerStationCall(c) ==
    /\ caller[c].pc = "idle"
    /\ CanRLockMap
    /\ \E op \in SingleOps, address \in Addrs :
         IF lookupFails(address)
         THEN /\ caller' = [caller EXCEPT ![c] = [IdleCaller EXCEPT
                               !.pc = "ret", !.op = op, !.target = address,
                               !.err = "NotFound"]]
              /\ task' = task
         ELSE /\ FreeTasks # {}
              /\ task' = SpawnFor([d \in {address} |-> SessionCall(op)], c)
              /\ caller' = [caller EXCEPT ![c] = [IdleCaller EXCEPT
                               !.pc = "powerwait", !.op = op,
                               !.target = address,
                               !.wg = {t \in Tasks : task'[t].parent = c}]]
    /\ UNCHANGED <<known, isScanning, stationsMutex>>
    /\ UNCHANGED <<station, connectedStations, links, reg, mutex, lastOp>>

\* PowerOnAllStations / PowerOffAllStations: the stations of the map are
\* copied under its read lock and one goroutine per station is started.
PowerAllCall(c) ==
    /\ caller[c].pc = "idle"
    /\ CanRLockMap
    /\ Cardinality(FreeTasks) >= Cardinality(known)
    /\ \E op \in AllOps :
         /\ task' = SpawnFor([d \in known |-> SessionCall(op)], c)
         /\ caller' = [caller EXCEPT ![c] = [IdleCaller EXCEPT
                          !.pc = "powerwait", !.op = op,
                          !.wg = {t \in Tasks : task'[t].parent = c}]]
    /\ UNCHANGED <<known, isScanning, stationsMutex>>
    /\ UNCHANGED <<station, connectedStations, links, reg, mutex, lastOp>>

\* bluetooth.PowerOn / PowerOff returns in a goroutine of a power call: the
\* deferred station.mutex.Unlock(), the error stored if there is one, and
\* wg.Done().
PowerReturn(t) ==
    /\ task[t].pc = "ret"
    /\ task[t].parent # NoCaller
    /\ LET tk == task[t]
           d == tk.dev
       IN /\ mutex' = [mutex EXCEPT ![d] = NoTask]
          /\ lastOp' = [lastOp EXCEPT ![d] = Summary(tk)]
          /\ task' = [task EXCEPT ![t] = IdleTask]
          /\ caller' = [caller EXCEPT ![tk.parent] = [@ EXCEPT
                           !.wg = @ \ {t},
                           !.errors = recordError(@, d, tk.err)]]
    /\ UNCHANGED <<station, connectedStations, links, reg>>
    /\ UNCHANGED <<known, isScanning, stationsMutex>>

\* wg.Wait() returns (in PowerOnStation / PowerOffStation: the session call
\* returns): the call's error is that of the session call, or the count of
\* the errors map.
PowerDone(c) ==
    /\ caller[c].pc = "powerwait"
    /\ caller[c].wg = {}
    /\ LET errors == caller[c].errors
       IN caller' = [caller EXCEPT ![c] = [@ EXCEPT
              !.pc = "ret",
              !.n = IF caller[c].op \in AllOps THEN Cardinality(DOMAIN errors) ELSE 0,
              !.err = IF caller[c].op \in AllOps
                      THEN (IF Cardinality(DOMAIN errors) > 0
                            THEN "Errors" ELSE "nil")
                      ELSE (IF caller[c].target \in DOMAIN errors
                            THEN errors[caller[c].target] ELSE "nil")]]
    /\ UNCHANGED <<known, isScanning, stationsMutex>>
    /\ UNCHANGED sessionVars

\* The power calls alone: some of the NumPowerAddrs stations in range are in
\* the map, and one goroutine calls PowerOnStation, PowerOffStation,
\* PowerOnAllStations and PowerOffAllStations in any order.
InitPower ==
    /\ station = [d \in 1 .. NumPowerAddrs |-> NewBaseStation("LHB-A")]
    /\ connectedStations = {}
    /\ links = [d \in 1 .. NumPowerAddrs |-> 0]
    /\ reg = [d \in 1 .. NumPowerAddrs |-> 0]
    /\ mutex = [d \in 1 .. NumPowerAddrs |-> NoTask]
    /\ task = [t \in 1 .. NumPowerAddrs |-> IdleTask]
    /\ lastOp = [d \in 1 .. NumPowerAddrs |-> "none"]
    /\ known \in SUBSET (1 .. NumPowerAddrs)
    /\ isScanning = FALSE
    /\ stationsMutex = [w |-> NoCaller, r |-> {}]
    /\ caller = <<IdleCaller>>

NextPower ==
    \/ \E c \in Callers : PowerStationCall(c)
    \/ \E c \in Callers : PowerAllCall(c)
    \/ \E c \in Callers : PowerDone(c)
    \/ \E c \in Callers : ManagerReturn(c)
    \/ \E t \in Tasks : Lock(t)
    \/ \E t \in Tasks : ConnectAndDiscover(t)
    \/ \E t \in Tasks : Discover(t)
    \/ \E t \in Tasks : Write(t)
    \/ \E t \in Tasks : Read(t)
    \/ \E t \in Tasks : PowerReturn(t)

SpecPower == InitPower /\ [][NextPower]_vars

(* ------------------------- every call together ------------------------- *)

\* The goroutine runs bluetooth.PowerOn / PowerOff for a power call of the
\* Manager, which waits for it and takes its error.
OfPowerCall(t) ==
    /\ task[t].parent # NoCaller
    /\ caller[task[t].parent].op \in SingleOps \cup AllOps

\* Every call of the Manager next to a shutdown: one goroutine calls
\* ScanAndFetchStations, CheckAllStationStatuses, GetStationInfo,
\* PowerOnStation / PowerOffStation and PowerOnAllStations /
\* PowerOffAllStations in any order, the goroutines of a bulk call run on
\* after its deadline, and a further goroutine calls DisconnectAllStations
\* (Manager.Shutdown) at any moment.  It starts as SpecBulk does.
NextAll ==
    \/ \E c \in Callers : ScanBegin(c)
    \/ \E c \in Callers : ScanFailed(c)
    \/ \E c \in Callers : ScanFound(c)
    \/ \E c \in Callers : MergeBegin(c)
    \/ \E c \in Callers : MergeKnown(c)
    \/ \E c \in Callers : MergeNew(c)
    \/ \E c \in Callers : MergeEnd(c)
    \/ \E c \in Callers : WaitDone(c)
    \/ \E c \in Callers : WaitTimeout(c)
    \/ \E c \in Callers : CallGetStationInfo(c)
    \/ \E c \in Callers : InfoBegin(c)
    \/ \E c \in Callers : InfoRead(c)
    \/ \E c \in Callers : InfoEnd(c)
    \/ \E c \in Callers : ManagerReturn(c)
    \/ \E c \in Callers : CheckBegin(c)
    \/ \E c \in Callers : CheckClassify(c)
    \/ \E c \in Callers : CheckEnd(c)
    \/ \E c \in Callers : PowerStationCall(c)
    \/ \E c \in Callers : PowerAllCall(c)
    \/ \E c \in Callers : PowerDone(c)
    \/ \E t \in Tasks : Lock(t)
    \/ \E t \in Tasks : ConnectAndDiscover(t)
    \/ \E t \in Tasks : Discover(t)
    \/ \E t \in Tasks : Write(t)
    \/ \E t \in Tasks : ReadCheck(t)
    \/ \E t \in Tasks : Read(t)
    \/ \E t \in Tasks : Disconnect(t)
    \/ \E t \in Tasks : ~OfPowerCall(t) /\ Return(t)
    \/ \E t \in Tasks : OfPowerCall(t) /\ PowerReturn(t)
    \/ \E t \in Tasks : CallDisconnectAll(t)
    \/ \E t \in Tasks : DisconnectAllNext(t)
    \/ \E t \in Tasks : DisconnectAllDone(t)

SpecAll == InitBulk /\ [][NextAll]_vars

(* ------------------------ two stations in the map ---------------------- *)

\* ScanFound when only the stations of S advertise during the scan.
ScanFoundAmong(c, S) ==
    /\ caller[c].pc = "scanning"
    /\ \E D \in SUBSET S : \E f \in [D -> Names] :
         caller' = [caller EXCEPT ![c] = [@ EXCEPT !.pc = "merge", !.found = f]]
    /\ UNCHANGED <<known, isScanning, stationsMutex>>
    /\ UNCHANGED sessionVars

\* PowerStationCall with an address argument taken from S.
PowerStationCallOn(c, S) ==
    /\ caller[c].pc = "idle"
    /\ CanRLockMap
    /\ \E op \in SingleOps, address \in S :
         IF lookupFails(address)
         THEN /\ caller' = [caller EXCEPT ![c] = [IdleCaller EXCEPT
                               !.pc = "ret", !.op = op, !.target = address,
                               !.err = "NotFound"]]
              /\ task' = task
         ELSE /\ FreeTasks # {}
              /\ task' = SpawnFor([d \in {address} |-> SessionCall(op)], c)
              /\ caller' = [caller EXCEPT ![c] = [IdleCaller EXCEPT
                               !.pc = "powerwait", !.op = op,
                               !.target = address,
                               !.wg = {t \in Tasks : task'[t].parent = c}]]
    /\ UNCHANGED <<known, isScanning, stationsMutex>>
    /\ UNCHANGED <<station, connectedStations, links, reg, mutex, lastOp>>

\* Two callers and a map of NumNear + 1 stations that an earlier scan put
\* there.  The stations 1 .. NumNear advertise and are the ones the calls
\* work on: goroutine 1 calls ScanAndFetchStations again and again,
\* goroutine 2 calls PowerOnStation / PowerOffStation on them.  The last
\* station is in the map and no call is made on it.
InitIndep ==
    /\ station = [d \in 1 .. NumNear + 1 |-> NewBaseStation("LHB-A")]
    /\ connectedStations = {}
    /\ links = [d \in 1 .. NumNear + 1 |-> 0]
    /\ reg = [d \in 1 .. NumNear + 1 |-> 0]
    /\ mutex = [d \in 1 .. NumNear + 1 |-> NoTask]
    /\ task = [t \in 1 .. NumNear + 1 |-> IdleTask]
    /\ lastOp = [d \in 1 .. NumNear + 1 |-> "other"]
    /\ known = 1 .. NumNear + 1
    /\ isScanning = FALSE
    /\ stationsMutex = [w |-> NoCaller, r |-> {}]
    /\ caller = <<IdleCaller, IdleCaller>>

\* Every station is in the map, so the merge takes its first branch only.
NextIndep ==
    \/ ScanBegin(1)
    \/ ScanFailed(1)
    \/ ScanFoundAmong(1, 1 .. NumNear)
    \/ MergeBegin(1)
    \/ MergeKnown(1)
    \/ MergeEnd(1)
    \/ WaitDone(1)
    \/ WaitTimeout(1)
    \/ InfoBegin(1)
    \/ InfoRead(1)
    \/ InfoEnd(1)
    \/ \E c \in Callers : ManagerReturn(c)
    \/ PowerStationCallOn(2, 1 .. NumNear)
    \/ PowerDone(2)
    \/ \E t \in Tasks : Lock(t)
    \/ \E t \in Tasks : ConnectAndDiscover(t)
    \/ \E t \in Tasks : Discover(t)
    \/ \E t \in Tasks : Write(t)
    \/ \E t \in Tasks : Read(t)
    \/ \E t \in Tasks : ~OfPowerCall(t) /\ Return(t)
    \/ \E t \in Tasks : OfPowerCall(t) /\ PowerReturn(t)

SpecIndep == InitIndep /\ [][NextIndep]_vars

(* ------------------------------ Shutdown ------------------------------- *)

\* Manager.Shutdown calls DisconnectAllStations, which copies
\* connectedStations under connectedStationsMutex.
ShutdownBegin(c) ==
    /\ caller[c].pc = "idle"
    /\ caller' = [caller EXCEPT ![c] = [IdleCaller EXCEPT
                     !.pc = "shutdown", !.op = "Shutdown",
                     !.todo = connectedStations]]
    /\ UNCHANGED <<known, isScanning, stationsMutex>>
    /\ UNCHANGED sessionVars

\* DisconnectAllStations calls DisconnectStation on the next station of its
\* copy and waits for it to return.
ShutdownNext(c) ==
    /\ caller[c].pc = "shutdown"
    /\ caller[c].wg = {}
    /\ FreeTasks # {}
    /\ \E d \in caller[c].todo :
         /\ task' = SpawnFor([x \in {d} |-> "Disconnect"], c)
         /\ caller' = [caller EXCEPT ![c] = [@ EXCEPT
                          !.todo = @ \ {d},
                          !.wg = {t \in Tasks : task'[t].parent = c}]]
    /\ UNCHANGED <<known, isScanning, stationsMutex>>
    /\ UNCHANGED <<station, connectedStations, links, reg, mutex, lastOp>>

\* DisconnectAllStations and Manager.Shutdown return; the Manager is not
\* called again.
ShutdownDone(c) ==
    /\ caller[c].pc = "shutdown"
    /\ caller[c].todo = {}
    /\ caller[c].wg = {}
    /\ caller' = [caller EXCEPT ![c].pc = "down"]
    /\ UNCHANGED <<known, isScanning, stationsMutex>>
    /\ UNCHANGED sessionVars

\* The Manager's bulk calls followed by Manager.Shutdown: one goroutine
\* calls ScanAndFetchStations, CheckAllStationStatuses and GetStationInfo in
\* any order and then Shutdown; the goroutines its calls started run on.
NextShutdown ==
    \/ NextBulk
    \/ \E c \in Callers : ShutdownBegin(c)
    \/ \E c \in Callers : ShutdownNext(c)
    \/ \E c \in Callers : ShutdownDone(c)
    \/ \E t \in Tasks : Disconnect(t)

SpecShutdown == InitBulk /\ [][NextShutdown]_vars

(* --------------------------- ScanForDuration --------------------------- *)

\* Local names as the characters they are made of, and the addresses an
\* advertisement can carry: the zero address and two stations.
NamePrefix == <<"L", "H", "B", "-">>
LocalNames ==
    {<<>>, <<"L", "H", "B">>, <<"X", "L", "H", "B", "-">>,
     <<"L", "H", "B", "-", "A">>, <<"L", "H", "B", "-", "B">>}
ZeroAddress == "00:00:00:00:00:00"
ScanAddresses == {ZeroAddress, "C0:00:00:00:00:01", "C0:00:00:00:00:02"}

\* strings.HasPrefix
HasPrefix(s, prefix) ==
    Len(s) >= Len(prefix) /\ SubSeq(s, 1, Len(prefix)) = prefix

\* scanCallback: the advertisements that pass its two early returns.
Accepts(name, addr) ==
    /\ ~(name = <<>> \/ ~HasPrefix(name, NamePrefix))
    /\ ~(addr = "" \/ addr = ZeroAddress)

\* A callback that keeps the entry an address already has.
scanCallbackKeepsFirst(localStations, name, addr) ==
    IF ~Accepts(name, addr) \/ addr \in DOMAIN localStations
    THEN localStations
    ELSE localStations @@
           (addr :> [Name |-> name, Address |-> addr,
                     PowerState |-> PowerStateUnknown])

\* scanCallback: localStations[addressString] = BaseStation{...}
scanCallback(localStations, name, addr) ==
    IF ~Accepts(name, addr)
    THEN localStations
    ELSE [a \in DOMAIN localStations \cup {addr} |->
             IF a = addr
             THEN [Name |-> name, Address |-> addr,
                   PowerState |-> PowerStateUnknown]
             ELSE localStations[a]]

\* ScanForDuration fails whenever adapter.Scan returned an error.
scanFailsOnAnyError(n, scanErr) == scanErr

\* ScanForDuration: len(results) == 0 && scanErr != nil
scanFails(n, scanErr) == n = 0 /\ scanErr

\* The slices a range over the map m can build: its values in any order.
Collected(m) ==
    {s \in [1 .. Cardinality(DOMAIN m) -> {m[a] : a \in DOMAIN m}] :
        \A a \in DOMAIN m : \E i \in DOMAIN s : s[i] = m[a]}

\* A goroutine that is not inside ScanForDuration.  heard is every
\* advertisement the adapter delivered, in order.
IdleScanner ==
    [pc |-> "idle", localStations |-> <<>>, scanErr |-> FALSE,
     heard |-> <<>>, results |-> <<>>, err |-> "nil"]

\* ScanForDuration is called: adapter.Scan(scanCallback) starts.
ScanCall(c) ==
    /\ caller[c].pc = "idle"
    /\ caller' = [caller EXCEPT ![c] = [IdleScanner EXCEPT !.pc = "scan"]]
    /\ UNCHANGED <<known, isScanning, stationsMutex>>
    /\ UNCHANGED sessionVars

\* The adapter delivers one advertisement to scanCallback.
Advertisement(c) ==
    /\ caller[c].pc = "scan"
    /\ Len(caller[c].heard) < MaxAdverts
    /\ \E name \in LocalNames, addr \in ScanAddresses :
         caller' = [caller EXCEPT ![c] = [@ EXCEPT
                       !.heard = Append(@, [name |-> name, addr |-> addr]),
                       !.localStations = scanCallback(@, name, addr)]]
    /\ UNCHANGED <<known, isScanning, stationsMutex>>
    /\ UNCHANGED sessionVars

\* adapter.Scan returns, with an error or after StopScan; the results are
\* collected and ScanForDuration returns them or the error.
ScanEnds(c) ==
    /\ caller[c].pc = "scan"
    /\ \E scanErr \in BOOLEAN, results \in Collected(caller[c].localStations) :
         caller' = [caller EXCEPT ![c] = [@ EXCEPT
                       !.pc = "done",
                       !.scanErr = scanErr,
                       !.results = IF scanFails(Len(results), scanErr)
                                   THEN <<>> ELSE results,
                       !.err = IF scanFails(Len(results), scanErr)
                               THEN "ScanError" ELSE "nil"]]
    /\ UNCHANGED <<known, isScanning, stationsMutex>>
    /\ UNCHANGED sessionVars

\* The caller of ScanForDuration has taken the result.
ScanReturned(c) ==
    /\ caller[c].pc = "done"
    /\ caller' = [caller EXCEPT ![c] = IdleScanner]
    /\ UNCHANGED <<known, isScanning, stationsMutex>>
    /\ UNCHANGED sessionVars

\* ScanForDuration alone: one goroutine calls it (its state is local to the
\* call), no station exists yet.
InitScan ==
    /\ station = <<>>
    /\ connectedStations = {}
    /\ links = <<>>
    /\ reg = <<>>
    /\ mutex = <<>>
    /\ task = <<>>
    /\ lastOp = <<>>
    /\ known = {}
    /\ isScanning = FALSE
    /\ stationsMutex = [w |-> NoCaller, r |-> {}]
    /\ caller = <<IdleScanner>>

NextScan ==
    \/ \E c \in Callers : ScanCall(c)
    \/ \E c \in Callers : Advertisement(c)
    \/ \E c \in Callers : ScanEnds(c)
    \/ \E c \in Callers : ScanReturned(c)

SpecScan == InitScan /\ [][NextScan]_vars

(* ------------------------------ claims --------------------------------- *)

\* The disconnected baseline: no handles, not connected, state Unknown.
Baseline(s) ==
    /\ ~s.isConnected
    /\ s.device = Nil
    /\ s.characteristic = Nil
    /\ s.PowerState = PowerStateUnknown

FullyConnected(s) ==
    s.isConnected /\ s.device # Nil /\ s.characteristic # Nil

\* The PowerState a read byte stands for.
StateOfByte(b) == IF b = 0 THEN PowerStateOff ELSE PowerStateOn

\* A task is between station.mutex.Lock() and the deferred Unlock().
InCriticalSection(t) ==
    task[t].pc \in {"cad", "disc", "write", "rchk", "read", "dis", "ret"}

PowerOps == {"PowerOn", "PowerOff"}

\* C1: whenever no call holds a station's mutex, isConnected is true if and
\* only if both the device handle and the characteristic handle are non-nil.
C1_ConnectedIffHandles ==
    \A d \in Addrs :
        mutex[d] = NoTask =>
            (station[d].isConnected <=>
                (station[d].device # Nil /\ station[d].characteristic # Nil))

\* C1 witness: an unlocked station that is connected with both handles after
\* a read failed on it (its state is Unknown).
C1_Witness ==
    \E d \in Addrs :
        /\ mutex[d] = NoTask
        /\ FullyConnected(station[d])
        /\ station[d].PowerState = PowerStateUnknown

\* C4: at most one call is inside its critical section on a station at any
\* instant, and it holds the station's mutex for as long as it is inside,
\* retries included.
C4_MutualExclusion ==
    /\ \A t1, t2 \in Tasks :
           (t1 # t2 /\ InCriticalSection(t1) /\ InCriticalSection(t2))
               => task[t1].dev # task[t2].dev
    /\ \A t \in Tasks : InCriticalSection(t) => mutex[task[t].dev] = t

\* C4 witness: a PowerOn / PowerOff is in its second attempt while another
\* call on the same station waits for the mutex.
C4_Witness ==
    \E t1, t2 \in Tasks :
        /\ task[t1].pc = "cad" /\ task[t1].i = 1
        /\ task[t2].pc = "wait" /\ task[t2].dev = task[t1].dev

\* C5 as stated: whenever FetchInitialPowerState, ReadPowerState, PowerOn or
\* PowerOff returns an error, the station is at the disconnected baseline.
C5_ErrorMeansBaseline ==
    \A t \in Tasks :
        (task[t].pc = "ret" /\ task[t].op \in {"Fetch", "Read"} \cup PowerOps
            /\ task[t].err # "nil")
            => Baseline(station[task[t].dev])

\* C5 amended: whenever one of the four calls returns an error the state is
\* Unknown; the station is at the disconnected baseline unless the error is
\* that of the read of the characteristic, and then the station is still
\* connected with both handles.
C5_ErrorMeansUnknown ==
    \A t \in Tasks :
        (task[t].pc = "ret" /\ task[t].op \in {"Fetch", "Read"} \cup PowerOps
            /\ task[t].err # "nil")
            => /\ station[task[t].dev].PowerState = PowerStateUnknown
               /\ task[t].err = "ReadError"
                      => FullyConnected(station[task[t].dev])
               /\ task[t].err # "ReadError"
                      => Baseline(station[task[t].dev])

\* C5 witness: FetchInitialPowerState returns the error of a failed read.
C5_Witness ==
    \E t \in Tasks :
        /\ task[t].pc = "ret" /\ task[t].op = "Fetch"
        /\ task[t].err = "ReadError"
        /\ FullyConnected(station[task[t].dev])

\* C6: discovery is attempted at most 3 times in one connectAndDiscover, a
\* third attempt follows two failed ones, and a FetchInitialPowerState whose
\* discovery failed twice and then succeeded, and whose read succeeded,
\* returns nil with the station connected, both handles set and the state
\* that of the byte read.
C6_ThirdDiscoverySucceeds ==
    \A t \in Tasks :
        /\ task[t].tries <= 3
        /\ task[t].pc = "disc" => task[t].tries < 3
        /\ (task[t].last = "discErr" /\ task[t].tries < 3) => task[t].pc = "disc"
        /\ (task[t].pc = "ret" /\ task[t].op = "Fetch" /\ task[t].tries = 2
               /\ task[t].last = "readOk")
               => /\ task[t].err = "nil"
                  /\ FullyConnected(station[task[t].dev])
                  /\ station[task[t].dev].PowerState = StateOfByte(task[t].rb)

\* C6 witness: such a FetchInitialPowerState is about to return.
C6_Witness ==
    \E t \in Tasks :
        /\ task[t].pc = "ret" /\ task[t].op = "Fetch" /\ task[t].tries = 2
        /\ task[t].last = "readOk" /\ task[t].rb = 255

\* C7: a FetchInitialPowerState whose discovery failed 3 times returns the
\* discovery error with the station at the disconnected baseline, its link
\* closed and its entry gone from connectedStations.
C7_DiscoveryExhausted ==
    \A t \in Tasks :
        (task[t].pc = "ret" /\ task[t].op = "Fetch" /\ task[t].tries = 3)
            => /\ task[t].err = "DiscoveryError"
               /\ Baseline(station[task[t].dev])
               /\ links[task[t].dev] = 0
               /\ task[t].dev \notin connectedStations

\* C7 witness: a FetchInitialPowerState returns after 3 failed attempts.
C7_Witness ==
    \E t \in Tasks :
        /\ task[t].pc = "ret" /\ task[t].op = "Fetch" /\ task[t].tries = 3
        /\ task[t].last = "discErr"

\* C8: PowerOn / PowerOff calls WriteWithoutResponse at most 2 times; after a
\* write error the session is disconnected before the next attempt; a call
\* in which no write returned without error returns an error with the station
\* at the disconnected baseline and not in connectedStations.
C8_WriteRetries ==
    \A t \in Tasks :
        /\ task[t].nw <= 2
        /\ task[t].last = "writeErr"
               => /\ task[t].pc \in {"cad", "ret"}
                  /\ Baseline(station[task[t].dev])
                  /\ links[task[t].dev] = 0
                  /\ task[t].dev \notin connectedStations
        /\ (task[t].pc = "ret" /\ task[t].op \in PowerOps /\ ~task[t].wrote)
               => /\ task[t].err # "nil"
                  /\ Baseline(station[task[t].dev])
                  /\ task[t].dev \notin connectedStations

\* C8 witness: a PowerOn returns after two failed writes.
C8_Witness ==
    \E t \in Tasks :
        /\ task[t].pc = "ret" /\ task[t].op = "PowerOn"
        /\ task[t].nw = 2 /\ ~task[t].wrote /\ task[t].err = "WriteError"

\* C9: a PowerOn / PowerOff in which a write returned without error returns
\* nil whatever the reconciliation read did, and a failed reconciliation read
\* leaves the session connected.
C9_ReconciliationReadIsBestEffort ==
    \A t \in Tasks :
        (task[t].pc = "ret" /\ task[t].op \in PowerOps /\ task[t].wrote)
            => /\ task[t].err = "nil"
               /\ task[t].last \in {"readOk", "readErr", "readShort"}
               /\ task[t].last \in {"readErr", "readShort"}
                      => /\ FullyConnected(station[task[t].dev])
                         /\ task[t].dev \in connectedStations
                         /\ links[task[t].dev] = 1

\* C9 witness: a PowerOff whose second write went through returns after its
\* reconciliation read failed.
C9_Witness ==
    \E t \in Tasks :
        /\ task[t].pc = "ret" /\ task[t].op = "PowerOff"
        /\ task[t].nw = 2 /\ task[t].wrote /\ task[t].last = "readErr"

\* C10: a ReadPowerState that meets no transport error and reads the byte the
\* device holds, run right after a PowerOn that met no transport error,
\* leaves PowerState On (0x01 written, 0x01 read) and the station connected.
C10_PowerOnThenRead ==
    \A t \in Tasks :
        (task[t].pc = "ret" /\ task[t].op = "Read" /\ task[t].clean
            /\ task[t].last = "readOk" /\ lastOp[task[t].dev] = "PowerOn")
            => /\ task[t].err = "nil"
               /\ task[t].rb = 1
               /\ station[task[t].dev].PowerState = PowerStateOn
               /\ FullyConnected(station[task[t].dev])

\* C10 witness: such a ReadPowerState is about to return.
C10_Witness ==
    \E t \in Tasks :
        /\ task[t].pc = "ret" /\ task[t].op = "Read" /\ task[t].clean
        /\ task[t].last = "readOk" /\ lastOp[task[t].dev] = "PowerOn"

\* A call of ScanAndFetchStations that set isScanning and has not returned.
Scanning(c) == caller[c].op = "Scan" /\ caller[c].admitted

\* A call of ScanAndFetchStations that found isScanning set.
Rejected(cl) == cl.op = "Scan" /\ cl.err = "AlreadyScanning"

\* C2: at most one call of ScanAndFetchStations is past the isScanning check
\* at any time, and isScanning is set while it is; a call that found the flag
\* set is not admitted, carries the error "scan already in progress", and
\* goes straight to the snapshot: it holds no scan result and started no
\* goroutine.  A call that found the flag clear is admitted.
C2_OneScanAtATime ==
    /\ Cardinality({c \in Callers : Scanning(c)}) <= 1
    /\ \A c \in Callers : Scanning(c) => isScanning
    /\ \A c \in Callers :
         caller[c].op = "Scan" =>
            IF caller[c].saw
            THEN /\ ~caller[c].admitted
                 /\ caller[c].err = "AlreadyScanning"
                 /\ caller[c].pc \in {"snap", "snapping", "ret"}
                 /\ DOMAIN caller[c].found = {}
                 /\ caller[c].wg = {}
                 /\ \A t \in Tasks : task[t].parent # c
            ELSE caller[c].admitted /\ caller[c].err # "AlreadyScanning"

\* One call waits for its fetches while another, rejected, is about to return.
C2_Witness ==
    \E c1, c2 \in Callers :
        /\ Scanning(c1) /\ caller[c1].pc = "fetchwait" /\ caller[c1].wg # {}
        /\ caller[c2].saw /\ Rejected(caller[c2]) /\ caller[c2].pc = "ret"

\* C3: no step of a call of ScanAndFetchStations that was rejected changes
\* the station map, a station (its name included), a goroutine or
\* isScanning; at the step that rejects it isScanning is set and stays set.
C3_RejectedScanChangesNothing ==
    [][\A c \in Callers :
          (caller'[c] # caller[c]
             /\ (Rejected(caller[c]) \/ Rejected(caller'[c])))
          => /\ UNCHANGED <<known, isScanning>>
             /\ UNCHANGED sessionVars
             /\ (~Rejected(caller[c]) => isScanning')]_vars

\* A rejected call is about to return the snapshot of a non-empty map while
\* the scan that caused the rejection is still waiting for its fetches.
C3_Witness ==
    \E c1, c2 \in Callers :
        /\ Rejected(caller[c2]) /\ caller[c2].pc = "ret"
        /\ known # {} /\ DOMAIN caller[c2].snap = known
        /\ isScanning /\ Scanning(c1)

\* C14 as stated: a DisconnectStation on a station that is already
\* disconnected returns without error and leaves every field of the station
\* (isConnected, both handles, PowerState, LastStateUpdate) and
\* connectedStations unchanged.
C14_DisconnectIsNoOp ==
    [][\A t \in Tasks :
          (task[t].pc = "dis" /\ task'[t].pc = "ret"
             /\ ~station[task[t].dev].isConnected)
          => /\ station'[task[t].dev] = station[task[t].dev]
             /\ connectedStations' = connectedStations
             /\ links' = links
             /\ task'[t].err = "nil"]_vars

\* What does hold of such a DisconnectStation: it returns without error, no
\* link is closed, connectedStations is unchanged, and of the station's
\* fields only LastStateUpdate changes.
C14_OnlyTimestampChanges ==
    [][\A t \in Tasks :
          (task[t].pc = "dis" /\ task'[t].pc = "ret"
             /\ ~station[task[t].dev].isConnected)
          => /\ station'[task[t].dev] =
                    [station[task[t].dev] EXCEPT
                        !.LastStateUpdate = station'[task[t].dev].LastStateUpdate]
             /\ station'[task[t].dev].LastStateUpdate
                    # station[task[t].dev].LastStateUpdate
             /\ connectedStations' = connectedStations
             /\ links' = links
             /\ task'[t].err = "nil"]_vars

\* A DisconnectStation has returned on a station that a DisconnectStation
\* had already disconnected.
C14_Witness ==
    \E t \in Tasks :
        /\ task[t].pc = "ret" /\ task[t].op = "Disconnect"
        /\ task[t].last = "none"
        /\ Baseline(station[task[t].dev])
        /\ station[task[t].dev].LastStateUpdate = 0

\* C20: whenever no call holds a station's mutex, the station is in
\* connectedStations if and only if it is connected.
C20_RegistryIffConnected ==
    \A d \in Addrs :
        mutex[d] = NoTask =>
            (d \in connectedStations <=> station[d].isConnected)

\* C20 witness: an unlocked station that a call left connected, with one
\* link open and in connectedStations, after reading 0x00 from it.
C20_Witness ==
    \E d \in Addrs :
        /\ mutex[d] = NoTask
        /\ d \in connectedStations /\ station[d].isConnected
        /\ links[d] = 1 /\ station[d].PowerState = PowerStateOff

\* The advertisements of a sequence that scanCallback accepts, the addresses
\* they carry, and the name of the last one that carries address a.
AcceptedIn(heard) ==
    {i \in DOMAIN heard : Accepts(heard[i].name, heard[i].addr)}

AcceptedAddresses(heard) == {heard[i].addr : i \in AcceptedIn(heard)}

LastNameOf(heard, a) ==
    LET is == {i \in AcceptedIn(heard) : heard[i].addr = a}
    IN heard[CHOOSE i \in is : \A j \in is : j <= i].name

\* C13: when ScanForDuration returns a result, the result has exactly one
\* entry per distinct address of an accepted advertisement, and the entry's
\* name is the name of the last accepted advertisement for its address.
C13_OneEntryPerAddress ==
    \A c \in Callers :
        (caller[c].pc = "done" /\ caller[c].err = "nil")
        => LET res == caller[c].results
           IN /\ {res[i].Address : i \in DOMAIN res}
                    = AcceptedAddresses(caller[c].heard)
              /\ \A i, j \in DOMAIN res :
                    res[i].Address = res[j].Address => i = j
              /\ \A i \in DOMAIN res :
                    /\ res[i].Name = LastNameOf(caller[c].heard, res[i].Address)
                    /\ res[i].PowerState = PowerStateUnknown

\* C13 witness: one address was heard under two names, and another address
\* in between; the result holds the second name.
C13_Witness ==
    \E c \in Callers :
        /\ caller[c].pc = "done" /\ caller[c].err = "nil"
        /\ Len(caller[c].heard) = 3
        /\ caller[c].heard[1].addr = caller[c].heard[3].addr
        /\ caller[c].heard[1].name = <<"L", "H", "B", "-", "A">>
        /\ caller[c].heard[3].name = <<"L", "H", "B", "-", "B">>
        /\ Len(caller[c].results) = 2

\* C19: ScanForDuration returns an error if and only if adapter.Scan returned
\* an error and no advertisement was accepted; if one was accepted it returns
\* an entry for every accepted address and no error, whatever adapter.Scan
\* returned.
C19_ScanErrorIffNothingFound ==
    \A c \in Callers :
        caller[c].pc = "done"
        => LET found == AcceptedAddresses(caller[c].heard)
           IN /\ caller[c].err # "nil" <=> (caller[c].scanErr /\ found = {})
              /\ caller[c].err # "nil" => caller[c].results = <<>>
              /\ found # {}
                    => /\ caller[c].err = "nil"
                       /\ {caller[c].results[i].Address :
                              i \in DOMAIN caller[c].results} = found

\* C19 witness: adapter.Scan returned an error after a station was heard, and
\* ScanForDuration returns the station without error.
C19_Witness ==
    \E c \in Callers :
        /\ caller[c].pc = "done" /\ caller[c].scanErr
        /\ caller[c].err = "nil" /\ Len(caller[c].results) = 1

\* The stations whose StationInfo a step appends to the list of caller c.
SnapshotReads(c) == DOMAIN caller'[c].snap \ DOMAIN caller[c].snap

\* C12: the merge inserts a station it sees for the first time with
\* PowerState Unknown and puts it in stationsToFetch, and a
\* FetchInitialPowerState is started for every station of stationsToFetch;
\* a StationInfo built before any call on the station has completed carries
\* Unknown, and one built when the last call completed on the station is a
\* FetchInitialPowerState that returned nil carries the state it read.
C12_NewStationUnknownUntilFetched ==
    [][/\ \A d \in known' \ known :
             /\ station'[d].PowerState = PowerStateUnknown
             /\ lastOp[d] = "none"
             /\ \E c \in Callers : d \in caller'[c].toFetch
       /\ \A c \in Callers :
             (caller[c].pc = "merging" /\ caller'[c].pc # "merging")
             => \A d \in caller[c].toFetch :
                   \E t \in Tasks :
                      /\ task[t].pc = "idle"
                      /\ task'[t].pc = "wait" /\ task'[t].op = "Fetch"
                      /\ task'[t].dev = d
       /\ \A c \in Callers : \A d \in SnapshotReads(c) :
             /\ lastOp[d] = "none"
                   => caller'[c].snap[d].powerState = PowerStateUnknown
             /\ lastOp[d] = "FetchOn"
                   => caller'[c].snap[d].powerState = PowerStateOn
             /\ lastOp[d] = "FetchOff"
                   => caller'[c].snap[d].powerState = PowerStateOff]_vars

\* C12 witness: one call holds a StationInfo with Unknown, another one built
\* after the station's fetch returned nil, with the state On it read.
C12_Witness ==
    \E c1, c2 \in Callers : \E d \in known :
        /\ caller[c1].pc = "ret" /\ d \in DOMAIN caller[c1].snap
        /\ caller[c1].snap[d].powerState = PowerStateUnknown
        /\ caller[c2].pc = "ret" /\ d \in DOMAIN caller[c2].snap
        /\ caller[c2].snap[d].powerState = PowerStateOn
        /\ lastOp[d] = "FetchOn"

\* C16 as stated: GetStationInfo never waits while a device operation is in
\* progress: whatever station its loop comes to next, GetPowerState returns
\* without waiting for the call that is inside a transport call or a retry
\* pause on that station.
C16_SnapshotNeverWaits ==
    \A c \in Callers :
        caller[c].pc = "snapping"
        => \A d \in caller[c].todo :
              \/ CanRLock(d)
              \/ task[mutex[d]].pc \notin {"cad", "disc", "write", "read", "dis"}

\* GetStationInfo has a station left to read whose mutex a
\* FetchInitialPowerState holds while it is inside adapter.Connect.
C16_Witness ==
    \E c \in Callers : \E d \in caller[c].todo :
        /\ caller[c].pc = "snapping"
        /\ mutex[d] # NoTask
        /\ task[mutex[d]].pc = "cad" /\ task[mutex[d]].op = "Fetch"
        /\ ~station[d].isConnected

\* C15 as stated: once its deadline has expired, a bulk call gets to its
\* return without waiting for the goroutines that had not finished: whatever
\* station its snapshot comes to next, the station's mutex is not held by
\* one of them.
C15_DeadlineBoundsWait ==
    \A c \in Callers :
        (caller[c].pc = "snapping" /\ caller[c].late # {})
        => \A d \in caller[c].todo : mutex[d] \notin caller[c].late

\* The snapshot of a call whose deadline expired has a station left to read
\* whose mutex is held by a goroutine the call started, inside adapter.Connect.
C15_Witness ==
    \E c \in Callers : \E d \in caller[c].todo :
        /\ caller[c].pc = "snapping"
        /\ mutex[d] \in caller[c].late
        /\ task[mutex[d]].pc = "cad" /\ ~station[d].isConnected

\* C17: a goroutine that has not finished when its bulk call stops waiting
\* for it is not cancelled: if every transport call returns and every
\* goroutine is scheduled it finishes its session call.
C17_OutlivingTaskCompletes ==
    \A t \in 1 .. MaxMgrTasks :
        (task[t].pc # "idle" /\ task[t].parent = NoCaller)
            ~> (task[t].pc = "idle")

\* C17 witness: the bulk call has returned, and the fetch it did not wait
\* for is about to return after connecting, registering the station and
\* storing On.
C17_Witness ==
    \E t \in Tasks :
        /\ task[t].pc = "ret" /\ task[t].parent = NoCaller
        /\ task[t].op = "Fetch" /\ task[t].err = "nil"
        /\ \A c \in Callers : caller[c].pc = "idle"
        /\ FullyConnected(station[task[t].dev])
        /\ station[task[t].dev].PowerState = PowerStateOn
        /\ task[t].dev \in connectedStations

\* The stations of the map that the last session call left disconnected: a
\* PowerOn / PowerOff returns an error exactly when it leaves its station so.
LeftDisconnected == {d \in known : ~station[d].isConnected}

\* C11: the goroutine of PowerOnAllStations / PowerOffAllStations stores an
\* error for its station exactly when its session call returned one, and
\* what happens on one station changes no other; when the call returns, its
\* error is nil if every session call returned nil, and otherwise carries
\* the number of stations whose session call returned an error, which are
\* the stations left disconnected, every other station being connected with
\* both handles.
C11_AggregateCountsFailures ==
    [][/\ \A t \in Tasks :
             (task[t].pc = "ret" /\ task'[t].pc # "ret"
                 /\ caller[task[t].parent].op \in AllOps)
             => LET c == task[t].parent
                    new == DOMAIN caller'[c].errors \ DOMAIN caller[c].errors
                IN /\ task[t].err # "nil" <=> new = {task[t].dev}
                   /\ task[t].err = "nil" <=> new = {}
       /\ \A t \in Tasks : \A d \in Addrs :
             (task'[t] # task[t] /\ d # task[t].dev /\ d # task'[t].dev)
             => station'[d] = station[d]
       /\ \A c \in Callers :
             (caller'[c].pc = "ret" /\ caller'[c].op \in AllOps)
             => /\ caller'[c].n = Cardinality(LeftDisconnected')
                /\ DOMAIN caller'[c].errors = LeftDisconnected'
                /\ caller'[c].err = "nil" <=> LeftDisconnected' = {}
                /\ caller'[c].err = "nil" <=> caller'[c].n = 0
                /\ \A d \in known \ LeftDisconnected' :
                      FullyConnected(station'[d])]_vars

\* C11 witness: PowerOnAllStations returns an error that counts 1: on one
\* station both writes failed, the other holds 0x01 and reports On.
C11_Witness ==
    \E c \in Callers : \E d1, d2 \in known :
        /\ caller[c].pc = "ret" /\ caller[c].op = "PowerOnAllStations"
        /\ caller[c].err = "Errors" /\ caller[c].n = 1
        /\ d1 \in DOMAIN caller[c].errors
        /\ caller[c].errors[d1] = "WriteError"
        /\ Baseline(station[d1])
        /\ station[d2].PowerState = PowerStateOn /\ reg[d2] = 1
        /\ FullyConnected(station[d2])

\* A call of PowerOnStation / PowerOffStation that did not find its address.
NotFound(cl) == cl.op \in SingleOps /\ cl.err = "NotFound"

\* C18: a PowerOnStation / PowerOffStation whose address is not a key of the
\* map returns the not-found error, and no step of it changes the map, a
\* station, a link, connectedStations or a goroutine.
C18_UnknownAddressChangesNothing ==
    [][\A c \in Callers :
          /\ (caller'[c].op \in SingleOps /\ caller'[c].target \notin known)
                => /\ NotFound(caller'[c])
                   /\ caller'[c].wg = {}
                   /\ \A t \in Tasks : task'[t].parent # c
          /\ (caller'[c] # caller[c]
                 /\ (NotFound(caller[c]) \/ NotFound(caller'[c])))
                => /\ UNCHANGED <<known, isScanning>>
                   /\ UNCHANGED sessionVars]_vars

\* C18 witness: PowerOffStation is about to return not-found for an address
\* in range that is not in the map, while the station that is in the map is
\* connected and On.
C18_Witness ==
    \E c \in Callers : \E d \in known :
        /\ caller[c].pc = "ret" /\ caller[c].op = "PowerOffStation"
        /\ NotFound(caller[c]) /\ caller[c].target \notin known
        /\ FullyConnected(station[d])
        /\ station[d].PowerState = PowerStateOn

\* C21: each pass of the merge loop puts its station in stationsToFetch if
\* and only if the station is new to the map or is known and not connected
\* (isConnected false or no device handle) at that pass; the pass changes no
\* other station and, of a known station, only the name; a station the scan
\* did not return is never in stationsToFetch and no step of the merge
\* changes it; and the goroutines started after the loop are one
\* FetchInitialPowerState per station of stationsToFetch and nothing else.
C21_MergeSchedulesNewAndDisconnected ==
    [][\A c \in Callers :
          /\ caller[c].pc = "merging"
                => /\ caller[c].toFetch \subseteq DOMAIN caller[c].found
                   /\ \A e \in Addrs \ DOMAIN caller[c].found :
                         caller'[c] # caller[c] => station'[e] = station[e]
          /\ (caller[c].pc = "merging" /\ caller'[c].pc = "merging")
                => \A d \in caller[c].todo \ caller'[c].todo :
                      /\ d \in caller'[c].toFetch
                            <=> \/ d \notin known
                                \/ ~(station[d].isConnected
                                       /\ station[d].device # Nil)
                      /\ caller'[c].toFetch \ {d} = caller[c].toFetch \ {d}
                      /\ known' = known \cup {d}
                      /\ \A e \in Addrs \ {d} : station'[e] = station[e]
                      /\ d \in known
                            => station'[d] = [station[d] EXCEPT
                                                !.Name = caller[c].found[d]]
          /\ (caller[c].pc = "merging" /\ caller'[c].pc # "merging")
                => LET started == {t \in Tasks : task'[t] # task[t]}
                   IN /\ {task'[t].dev : t \in started} = caller[c].toFetch
                      /\ Cardinality(started) = Cardinality(caller[c].toFetch)
                      /\ \A t \in started :
                            /\ task[t].pc = "idle"
                            /\ task'[t].pc = "wait" /\ task'[t].op = "Fetch"
                      /\ station' = station /\ known' = known]_vars

\* C21 witness: the loop of a scan that returned the station is over; the
\* station was in the map before, a FetchInitialPowerState left it connected,
\* the pass gave it the name of this scan and it is not in stationsToFetch.
C21_Witness ==
    \E c \in Callers : \E d \in known :
        /\ caller[c].pc = "merging" /\ caller[c].todo = {}
        /\ DOMAIN caller[c].found = {d}
        /\ lastOp[d] = "FetchOff" /\ FullyConnected(station[d])
        /\ caller[c].found[d] = "LHB-B" /\ station[d].Name = "LHB-B"
        /\ caller[c].toFetch = {}

\* C22: isScanning is set exactly while a call of ScanAndFetchStations that
\* set it has not returned, so it is clear whenever no such call is active;
\* and a call that set it returns, whichever way (scan error, every fetch
\* finished, deadline), with the flag cleared: isScanning set leads to
\* isScanning clear.
C22_ScanFlagCleared ==
    /\ [](isScanning <=> \E c \in Callers : Scanning(c))
    /\ isScanning ~> ~isScanning

\* C22 witness: the call has returned after its deadline expired (the fetch
\* it started is still inside adapter.Connect) and isScanning is clear.
C22_Witness ==
    /\ ~isScanning
    /\ \A c \in Callers : caller[c].pc = "idle"
    /\ \E t \in Tasks :
          /\ task[t].op = "Fetch" /\ task[t].pc = "cad"
          /\ task[t].parent = NoCaller

\* C23: each pass of the loop of CheckAllStationStatuses puts its station in
\* stationsToRead if the station is connected at that pass and in
\* stationsToFetch if it is not; the goroutines started after the loop are
\* exactly one per station of the map, a ReadPowerState for a station of
\* stationsToRead and a FetchInitialPowerState for one of stationsToFetch;
\* and a ReadPowerState that finds its station disconnected returns the
\* not-connected error and changes nothing of the station.
C23_OneTaskPerKnownStation ==
    [][/\ \A c \in Callers :
             /\ (caller[c].pc = "checking" /\ caller'[c].pc = "checking")
                   => \A d \in caller[c].todo \ caller'[c].todo :
                         LET connected == station[d].isConnected
                                             /\ station[d].device # Nil
                         IN /\ d \in caller'[c].toRead <=> connected
                            /\ d \in caller'[c].toFetch <=> ~connected
                            /\ caller'[c].toRead \ {d} = caller[c].toRead
                            /\ caller'[c].toFetch \ {d} = caller[c].toFetch
             /\ (caller[c].pc = "checking" /\ caller'[c].pc # "checking")
                   => LET started == {t \in Tasks : task'[t] # task[t]}
                      IN /\ caller[c].toRead \cup caller[c].toFetch = known
                         /\ caller[c].toRead \cap caller[c].toFetch = {}
                         /\ {task'[t].dev : t \in started} = known
                         /\ Cardinality(started) = Cardinality(known)
                         /\ \A t \in started :
                               /\ task[t].pc = "idle" /\ task'[t].pc = "wait"
                               /\ task'[t].op =
                                      IF task'[t].dev \in caller[c].toRead
                                      THEN "Read" ELSE "Fetch"
       /\ \A t \in Tasks :
             (task[t].op = "Read" /\ task[t].pc = "rchk"
                 /\ task'[t].pc # "rchk" /\ ~station[task[t].dev].isConnected)
             => /\ task'[t].pc = "ret" /\ task'[t].err = "NotConnected"
                /\ station' = station
                /\ connectedStations' = connectedStations
                /\ links' = links]_vars

\* C23 witness: the ReadPowerState that CheckAllStationStatuses started for a
\* station it found connected returns the not-connected error to the call
\* that still waits for it, DisconnectAllStations having disconnected the
\* station in between.
C23_Witness ==
    \E t \in Tasks : \E c \in Callers :
        /\ task[t].op = "Read" /\ task[t].pc = "ret"
        /\ task[t].err = "NotConnected" /\ task[t].parent = c
        /\ caller[c].op = "CheckAll" /\ caller[c].wg = {t}
        /\ Baseline(station[task[t].dev])
        /\ task[t].dev \notin connectedStations

\* C24: from the moment a FetchInitialPowerState holds the station's mutex
\* until its read has returned, the FetchInitialPowerState holds the mutex,
\* every other call on the station (ReadPowerState, PowerOn, PowerOff,
\* DisconnectStation, the DisconnectStation of DisconnectAllStations,
\* another FetchInitialPowerState) does nothing but arrive and wait for the
\* mutex, and the station, its link and its entry in connectedStations
\* change only in the steps of the FetchInitialPowerState.
C24_FetchIsAtomic ==
    [][\A t \in Tasks :
          (task[t].op = "Fetch" /\ task[t].pc \in {"cad", "disc", "read"})
          => LET d == task[t].dev
             IN /\ mutex[d] = t
                /\ \A u \in Tasks \ {t} :
                      (task[u].dev = d \/ task'[u].dev = d)
                      => \/ task'[u] = task[u]
                         \/ /\ task[u].pc \in {"idle", "da"}
                            /\ task'[u].pc = "wait"
                /\ task'[t] = task[t]
                      => /\ station'[d] = station[d]
                         /\ links'[d] = links[d]
                         /\ d \in connectedStations' <=> d \in connectedStations
                         /\ mutex'[d] = t]_vars

\* C24 witness: a FetchInitialPowerState has connected and discovered and is
\* about to read, while a DisconnectStation on the same station waits for
\* the mutex.
C24_Witness ==
    \E t, u \in Tasks :
        /\ task[t].op = "Fetch" /\ task[t].pc = "read"
        /\ task[t].last = "discOk"
        /\ task[u].op = "Disconnect" /\ task[u].pc = "wait"
        /\ task[u].dev = task[t].dev

\* The calls that run connectAndDiscoverInternal.
CadOps == {"Fetch", "PowerOn", "PowerOff"}

\* C25: a connectAndDiscoverInternal on a station that is connected with
\* both handles returns nil at once: no transport call is made, and the
\* station (handles, isConnected, PowerState, LastStateUpdate), its link and
\* connectedStations are unchanged; applied to the state it leaves, whatever
\* adapter.Connect would return, it leaves that state again.
C25_ConnectAndDiscoverIdempotent ==
    [][/\ \A t \in Tasks :
             (task[t].pc = "cad" /\ task'[t].pc # "cad"
                 /\ FullyConnected(station[task[t].dev]))
             => /\ station' = station
                /\ links' = links
                /\ connectedStations' = connectedStations
                /\ task'[t].pc = (IF task[t].op = "Fetch" THEN "read"
                                                         ELSE "write")
                /\ task'[t].err = "nil"
                /\ task'[t].last = task[t].last
                /\ task'[t].tries = task[t].tries /\ task'[t].i = task[t].i
       /\ \A d \in Addrs : \A op \in CadOps : \A o1, o2 \in ConnectOutcomes :
             FullyConnected(station[d])
             => LET tk == [IdleTask EXCEPT !.pc = "cad", !.op = op, !.dev = d]
                    once == connectAndDiscoverInternal(tk, World(d), Now(d), o1)
                    twice == connectAndDiscoverInternal(
                                 [once.tk EXCEPT !.pc = "cad"], once.w,
                                 1 - once.w.s.LastStateUpdate, o2)
                IN /\ once.w = World(d)
                   /\ twice.w = once.w
                   /\ twice.tk = once.tk /\ once.tk.last = "none"]_vars

\* C25 witness: a FetchInitialPowerState on a station that an earlier call
\* left connected is past connectAndDiscoverInternal without having made a
\* transport call.
C25_Witness ==
    \E t \in Tasks :
        /\ task[t].op = "Fetch" /\ task[t].pc = "read"
        /\ task[t].last = "none"
        /\ FullyConnected(station[task[t].dev])
        /\ station[task[t].dev].PowerState = PowerStateOn
        /\ links[task[t].dev] = 1

\* C26: when adapter.Connect fails in connectAndDiscoverInternal, the station
\* is left with both handles nil, isConnected false and PowerState Unknown,
\* no link is open, the station is not in connectedStations, no discovery
\* is attempted, and connectAndDiscoverInternal returns the connection error
\* without calling adapter.Connect again: FetchInitialPowerState returns it,
\* PowerOn / PowerOff return it from their last attempt and start their
\* next attempt otherwise.  No other failure gives the connection error.
C26_ConnectFailure ==
    [][\A t \in Tasks :
          /\ (task[t].pc = "cad"
                 /\ (task'[t].pc # "cad" \/ task'[t].i # task[t].i)
                 /\ ~station[task[t].dev].isConnected
                 /\ ~station'[task[t].dev].isConnected)
                => LET d == task[t].dev
                   IN /\ task'[t].last = "connErr"
                      /\ Baseline(station'[d])
                      /\ d \notin connectedStations'
                      /\ links'[d] = 0
                      /\ task'[t].tries = task[t].tries
                      /\ IF task[t].op = "Fetch"
                            \/ task[t].i = maxRetriesPower - 1
                         THEN /\ task'[t].pc = "ret"
                              /\ task'[t].err = "ConnectionError"
                         ELSE /\ task'[t].pc = "cad"
                              /\ task'[t].i = task[t].i + 1
                              /\ task'[t].err = "nil"
          /\ task'[t].err = "ConnectionError"
                => task'[t].last = "connErr" /\ task'[t].pc = "ret"]_vars

\* C26 witness: a FetchInitialPowerState is about to return the connection
\* error after its one call of adapter.Connect failed.
C26_Witness ==
    \E t \in Tasks :
        /\ task[t].op = "Fetch" /\ task[t].pc = "ret"
        /\ task[t].err = "ConnectionError" /\ task[t].last = "connErr"
        /\ Baseline(station[task[t].dev])
        /\ task[t].dev \notin connectedStations

AllBytes == 0 .. 255

\* C28: a read of one byte stores Off for 0x00 and On for every other byte
\* value and returns no error; a call whose last transport call is a
\* successful read returns with PowerState Off or On, the one its byte
\* stands for, and FetchInitialPowerState / ReadPowerState return nil.
C28_ByteMapping ==
    /\ \A d \in Addrs : \A b \in AllBytes :
          station[d].characteristic # Nil
          => LET outcome == [k |-> "readOk", b |-> b]
                 after == readPowerStateInternal(station[d], Now(d), outcome)
             IN /\ b = 0 => after.PowerState = PowerStateOff
                /\ b # 0 => after.PowerState = PowerStateOn
                /\ ~readFails(station[d], outcome)
    /\ \A t \in Tasks :
          (task[t].pc = "ret" /\ task[t].last = "readOk")
          => /\ station[task[t].dev].PowerState \in {PowerStateOff, PowerStateOn}
             /\ task[t].rb = 0
                   <=> station[task[t].dev].PowerState = PowerStateOff
             /\ task[t].err = "nil"

\* C28 witness: a ReadPowerState that read 0xFF is about to return nil with
\* PowerState On.
C28_Witness ==
    \E t \in Tasks :
        /\ task[t].op = "Read" /\ task[t].pc = "ret"
        /\ task[t].last = "readOk" /\ task[t].rb = 255
        /\ task[t].err = "nil"
        /\ station[task[t].dev].PowerState = PowerStateOn

\* C29 as stated: a WriteWithoutResponse of PowerOn / PowerOff that returns a
\* count other than 1 and no error is handled as one that returns an error:
\* the session is disconnected, the next attempt starts if one is left, and
\* the call otherwise returns the write error.
C29_ShortWriteIsWriteError ==
    \A t \in Tasks :
        task[t].last = "writeShort"
        => /\ task[t].pc \in {"cad", "ret"}
           /\ Baseline(station[task[t].dev])
           /\ task[t].pc = "ret" => task[t].err = "WriteError"

\* C29 witness: a PowerOn is about to return nil after its only write, in
\* its first attempt, returned a count other than 1 (every other transport
\* call of it succeeded in full and its read returned the byte the device
\* holds, which is not 0x01).
C29_Witness ==
    \E t \in Tasks :
        /\ task[t].op = "PowerOn" /\ task[t].pc = "ret"
        /\ task[t].err = "nil"
        /\ task[t].i = 0 /\ task[t].tries = 0 /\ task[t].nw = 1
        /\ task[t].wrote /\ ~task[t].clean
        /\ task[t].last = "readOk" /\ task[t].rb = reg[task[t].dev]
        /\ task[t].rb = 0
        /\ station[task[t].dev].PowerState = PowerStateOff

\* C30 as stated: a station's LastStateUpdate changes only in a step in
\* which a read of the characteristic succeeds.
C30_TimestampOnlyOnSuccessfulRead ==
    [][\A d \in Addrs :
          station'[d].LastStateUpdate # station[d].LastStateUpdate
          => \E t \in Tasks :
                /\ task[t].dev = d /\ task[t].pc = "read"
                /\ task'[t].pc = "ret" /\ task'[t].last = "readOk"]_vars

\* C30 witness: a FetchInitialPowerState that made one transport call, an
\* adapter.Connect that failed, is about to return, and the station's
\* LastStateUpdate is later than the one it was built with.
C30_Witness ==
    \E t \in Tasks :
        /\ task[t].op = "Fetch" /\ task[t].pc = "ret"
        /\ task[t].err = "ConnectionError" /\ task[t].last = "connErr"
        /\ task[t].rb = -1
        /\ station[task[t].dev].LastStateUpdate = 1

Settled(d) == mutex[d] = NoTask \/ task[mutex[d]].pc = "ret"

TargetState(op) == IF op = "PowerOn" THEN PowerStateOn ELSE PowerStateOff

\* C39: a PowerOn and a PowerOff called concurrently on one station run one
\* after the other.  A power call that met no transport error and read back
\* the byte the device holds returns with the device holding its byte and
\* PowerState equal to its target; once it has released the mutex, and
\* until the next call takes it, PowerState is the target of that call, the
\* last one to have held the mutex.
C39_LastLockerWins ==
    /\ \A t \in Tasks :
           (task[t].pc = "ret" /\ task[t].op \in PowerOps
               /\ task[t].err = "nil" /\ task[t].clean)
           => /\ mutex[task[t].dev] = t
              /\ FullyConnected(station[task[t].dev])
              /\ station[task[t].dev].PowerState = TargetState(task[t].op)
              /\ reg[task[t].dev] = TargetState(task[t].op)
    /\ \A d \in Addrs :
           (mutex[d] = NoTask /\ lastOp[d] \in PowerOps)
           => /\ FullyConnected(station[d])
              /\ station[d].PowerState = TargetState(lastOp[d])
              /\ reg[d] = TargetState(lastOp[d])

\* C39 witness: a PowerOff that met no error completed on the station, then
\* a PowerOn took the mutex and is returning with state On, while another
\* PowerOff, called meanwhile, waits for the mutex.
C39_Witness ==
    \E t, u \in Tasks :
        /\ t # u
        /\ task[t].op = "PowerOn" /\ task[t].pc = "ret"
        /\ task[t].err = "nil" /\ task[t].clean
        /\ lastOp[task[t].dev] = "PowerOff"
        /\ station[task[t].dev].PowerState = PowerStateOn
        /\ task[u].op = "PowerOff" /\ task[u].pc = "wait"
        /\ task[u].dev = task[t].dev

\* Upper bounds on the transport calls a call can still make from where it
\* stands: connectAndDiscoverInternal calls (each makes at most one
\* adapter.Connect), discovery attempts, writes and reads.
CadLeft(tk) ==
    IF tk.op = "Fetch"
    THEN (IF tk.pc \in {"wait", "cad"} THEN 1 ELSE 0)
    ELSE CASE tk.pc = "wait" -> 2
           [] tk.pc = "cad" -> 2 - tk.i
           [] tk.pc \in {"disc", "write"} -> 1 - tk.i
           [] OTHER -> 0

DiscLeft(tk) ==
    IF tk.op = "Fetch"
    THEN CASE tk.pc \in {"wait", "cad"} -> 3
           [] tk.pc = "disc" -> 3 - tk.tries
           [] OTHER -> 0
    ELSE CASE tk.pc = "wait" -> 6
           [] tk.pc = "cad" -> 3 * (2 - tk.i)
           [] tk.pc = "disc" -> (3 - tk.tries) + 3 * (1 - tk.i)
           [] tk.pc = "write" -> 3 * (1 - tk.i)
           [] OTHER -> 0

WritesLeft(tk) ==
    IF tk.op = "Fetch" THEN 0
    ELSE IF tk.pc \in {"wait", "cad", "disc", "write"} THEN 2 - tk.i ELSE 0

ReadsLeft(tk) ==
    IF tk.pc \in {"wait", "cad", "disc", "write", "read"} THEN 1 ELSE 0

CallsLeft(tk) == CadLeft(tk) + DiscLeft(tk) + WritesLeft(tk) + ReadsLeft(tk)

\* C40: PowerOn, PowerOff and FetchInitialPowerState end after a bounded
\* number of transport calls.  A PowerOn / PowerOff starts with at most 2
\* connectAndDiscoverInternal calls (hence 2 connects), 6 discovery
\* attempts, 2 writes and 1 read ahead of it, a FetchInitialPowerState with
\* 1 connect, 3 discovery attempts and 1 read; every step of the call uses
\* up at least one of them, a step of each kind uses up one of its kind,
\* none of the counts goes below zero, and a returning call has none left.
C40_BoundedTransportCalls ==
    [][\A t \in Tasks :
          (task[t].op \in CadOps
              /\ task[t].pc \in {"cad", "disc", "write", "read"}
              /\ (task'[t].pc # task[t].pc \/ task'[t].i # task[t].i
                      \/ task'[t].tries # task[t].tries))
          => /\ CallsLeft(task'[t]) < CallsLeft(task[t])
             /\ CadLeft(task'[t]) <= CadLeft(task[t])
             /\ DiscLeft(task'[t]) <= DiscLeft(task[t])
             /\ WritesLeft(task'[t]) <= WritesLeft(task[t])
             /\ ReadsLeft(task'[t]) <= ReadsLeft(task[t])
             /\ CadLeft(task'[t]) >= 0 /\ DiscLeft(task'[t]) >= 0
             /\ WritesLeft(task'[t]) >= 0
             /\ task[t].pc = "cad" => CadLeft(task'[t]) < CadLeft(task[t])
             /\ links'[task[t].dev] > links[task[t].dev]
                    => /\ task[t].pc = "cad"
                       /\ links'[task[t].dev] = links[task[t].dev] + 1
             /\ task[t].pc = "disc" => DiscLeft(task'[t]) < DiscLeft(task[t])
             /\ task[t].pc = "write"
                    => /\ WritesLeft(task'[t]) < WritesLeft(task[t])
                       /\ task'[t].nw = task[t].nw + 1
                       /\ task'[t].nw <= 2
             /\ task[t].pc = "read"
                    => /\ ReadsLeft(task'[t]) < ReadsLeft(task[t])
                       /\ task'[t].pc = "ret"
             /\ task'[t].pc = "ret" => CallsLeft(task'[t]) = 0
             /\ task'[t].pc \in {"cad", "disc", "write", "read", "ret"}
      ]_vars

\* C40 witness: a PowerOn in its second attempt, after a write error in the
\* first, fails its third discovery attempt and returns the error: it made
\* two connects and one write, and has no call left.
C40_Witness ==
    \E t \in Tasks :
        /\ task[t].op = "PowerOn" /\ task[t].pc = "ret"
        /\ task[t].err = "DiscoveryError"
        /\ task[t].i = 1 /\ task[t].tries = 3 /\ task[t].nw = 1
        /\ CallsLeft(task[t]) = 0

\* A call of ScanAndFetchStations whose ScanForDuration returned an error.
ScanErrored(cl) == cl.op = "Scan" /\ cl.err = "ScanError"

\* C38: when ScanForDuration returns an error, ScanAndFetchStations goes
\* straight to its return: it takes no write lock on the map, inserts and
\* renames no station, starts no goroutine, and returns the error with the
\* list GetStationInfo builds from the map as it is (one entry per station
\* of the map, each with the station's name and PowerState as read); the
\* deferred function clears isScanning at the return.
C38_ScanErrorChangesNothing ==
    [][\A c \in Callers :
          /\ (caller[c].pc = "scanning" /\ caller'[c].pc # "scanning"
                  /\ caller'[c].pc # "merge")
             => /\ caller'[c].pc = "snap" /\ ScanErrored(caller'[c])
                /\ UNCHANGED <<known, isScanning, stationsMutex>>
                /\ UNCHANGED sessionVars
          /\ (caller'[c] # caller[c] /\ ScanErrored(caller[c]))
             => /\ known' = known
                /\ station' = station
                /\ task' = task
                /\ caller[c].admitted
                /\ caller'[c].toFetch = {} /\ caller'[c].wg = {}
                /\ stationsMutex'.w = stationsMutex.w
                /\ caller[c].pc \in {"snap", "snapping", "ret"}
                /\ caller'[c].pc \in {"snapping", "ret", "idle"}
                /\ \A d \in SnapshotReads(c) :
                       /\ d \in known
                       /\ caller'[c].snap[d] =
                              [name |-> station[d].Name,
                               powerState |-> station[d].PowerState]
                /\ caller'[c].pc = "ret"
                       => /\ DOMAIN caller'[c].snap = known
                          /\ caller'[c].err = "ScanError"
                /\ isScanning
                /\ isScanning' = (caller'[c].pc # "idle")
      ]_vars

\* C38 witness: a call whose scan failed is about to return the error with
\* the snapshot of a map that an earlier scan filled; isScanning is still
\* set and no goroutine belongs to the call.
C38_Witness ==
    \E c \in Callers :
        /\ ScanErrored(caller[c]) /\ caller[c].pc = "ret"
        /\ known # {} /\ DOMAIN caller[c].snap = known
        /\ isScanning
        /\ \A t \in Tasks : task[t].parent # c

Guarded(s) ==
    <<s.PowerState, s.device, s.characteristic, s.isConnected,
      s.LastStateUpdate>>

\* The stations whose IsConnected() a step of caller c evaluates in the loop
\* of the merge or of CheckAllStationStatuses.
ConnectionReads(c) ==
    IF caller[c].pc \in {"merging", "checking"}
    THEN (caller[c].todo \ caller'[c].todo) \cap known
    ELSE {}

\* C31: PowerState, the device handle, the characteristic handle,
\* isConnected and LastStateUpdate of a station are read and written only
\* under the station's own mutex.  A step that changes one of them is a step
\* of the session call that holds the mutex; every step of a session call
\* between its Lock() and its return is taken with the mutex held; and a
\* Manager call reads PowerState (GetStationInfo) or the connection status
\* (the merge, CheckAllStationStatuses) of a station only at a moment when
\* no session call holds the station's mutex, that is through the read lock
\* and not under the map's lock alone.
C31_FieldsUnderStationMutex ==
    [][/\ \A d \in Addrs :
             Guarded(station'[d]) # Guarded(station[d])
             => \E t \in Tasks :
                    /\ mutex[d] = t /\ mutex'[d] = t
                    /\ task[t].dev = d
                    /\ task'[t].pc # task[t].pc \/ task'[t].i # task[t].i
                           \/ task'[t].tries # task[t].tries
       /\ \A t \in Tasks :
             (task[t].pc \in {"cad", "disc", "write", "rchk", "read", "dis"}
                 /\ (task'[t].pc # task[t].pc \/ task'[t].i # task[t].i
                         \/ task'[t].tries # task[t].tries))
             => /\ mutex[task[t].dev] = t
                /\ mutex'[task[t].dev] = t
       /\ \A c \in Callers :
             \A d \in SnapshotReads(c) \cup ConnectionReads(c) :
                 /\ mutex[d] = NoTask
                 /\ d \in SnapshotReads(c)
                        => caller'[c].snap[d].powerState = station[d].PowerState
      ]_vars

\* C31 witness: GetStationInfo holds the map's read lock and has the
\* station's PowerState still to read while a FetchInitialPowerState that
\* outlived its deadline, between its connect and its read, holds the
\* station's mutex.
C31_Witness ==
    \E c \in Callers, t \in Tasks :
        /\ caller[c].pc = "snapping"
        /\ c \in stationsMutex.r
        /\ task[t].dev \in caller[c].todo
        /\ task[t].op = "Fetch" /\ task[t].pc \in {"disc", "read"}
        /\ task[t].parent = NoCaller
        /\ mutex[task[t].dev] = t

\* A step of a call that is under way: every step but the start of a call.
Progress ==
    \/ \E c \in Callers :
          \/ ScanFailed(c) \/ ScanFound(c) \/ MergeBegin(c) \/ MergeKnown(c)
          \/ MergeNew(c) \/ MergeEnd(c) \/ WaitDone(c) \/ WaitTimeout(c)
          \/ InfoBegin(c) \/ InfoRead(c) \/ InfoEnd(c) \/ ManagerReturn(c)
          \/ CheckClassify(c) \/ CheckEnd(c) \/ PowerDone(c)
    \/ \E t \in Tasks :
          \/ Lock(t) \/ ConnectAndDiscover(t) \/ Discover(t) \/ Write(t)
          \/ ReadCheck(t) \/ Read(t) \/ Disconnect(t)
          \/ (~OfPowerCall(t) /\ Return(t))
          \/ (OfPowerCall(t) /\ PowerReturn(t))
          \/ DisconnectAllNext(t) \/ DisconnectAllDone(t)

\* Some call of the Manager or of the session layer is under way.
Busy ==
    \/ \E c \in Callers : caller[c].pc # "idle"
    \/ \E t \in Tasks : task[t].pc # "idle"

\* The pcs at which a Manager call is about to take the map's lock.
WaitsForMap(c) ==
    \/ caller[c].pc \in {"merge", "snap"}
    \/ caller[c].pc = "ret" /\ caller[c].op = "Scan" /\ caller[c].admitted

MergeNeeds(a) ==
    \E c \in Callers :
        /\ stationsMutex.w = c /\ caller[c].pc = "merging"
        /\ a \in caller[c].todo \cap known

\* C32 as stated: calls on different stations are independent.  A step of a
\* session call on a station changes no field of another station, nor its
\* link, its place in connectedStations or its mutex; and while a session
\* call holds the mutex of station a, a call on another station b of the
\* map whose mutex is free can start and finish: the map's lock, which
\* PowerOnStation / PowerOffStation / CheckAllStationStatuses take first, is
\* not held by a goroutine that cannot release it before the call on a
\* has returned.
C32_StationsIndependent ==
    [][/\ \A t \in Tasks :
             (InCriticalSection(t) /\ task'[t].pc # task[t].pc)
             => \A b \in Addrs \ {task[t].dev} :
                    /\ station'[b] = station[b]
                    /\ links'[b] = links[b]
                    /\ reg'[b] = reg[b]
                    /\ (b \in connectedStations') = (b \in connectedStations)
                    /\ mutex'[b] = mutex[b]
       /\ \A a, b \in known :
             (a # b /\ mutex[a] # NoTask /\ mutex[b] = NoTask)
             => ~MergeNeeds(a)
      ]_vars

\* C32 witness: PowerOnStation / PowerOffStation cannot start on station 2,
\* which is in the map with its mutex free, though a goroutine is free to
\* run it: the call needs the map's read lock, the merge holds the write
\* lock and waits for the read lock of station 1, and the mutex of station 1
\* is held by a FetchInitialPowerState inside its connect or discovery.
C32_Witness ==
    \E t \in Tasks :
        /\ caller[2].pc = "idle" /\ FreeTasks # {}
        /\ 2 \in known /\ mutex[2] = NoTask
        /\ ~CanRLockMap /\ ~ENABLED PowerStationCall(2)
        /\ MergeNeeds(1) /\ stationsMutex.w = 1 /\ caller[1].todo = {1}
        /\ mutex[1] = t /\ task[t].op = "Fetch"
        /\ task[t].pc \in {"cad", "disc"}

\* C37 as stated: once Manager.Shutdown (DisconnectAllStations) has returned
\* and every goroutine started before it has finished, no station is
\* connected, no link is open and connectedStations is empty.
C37_ShutdownDisconnectsAll ==
    \A c \in Callers :
        (caller[c].pc = "down" /\ \A t \in Tasks : task[t].pc = "idle")
        => /\ connectedStations = {}
           /\ \A d \in Addrs : ~station[d].isConnected /\ links[d] = 0

\* C37 witness: Shutdown has returned, every goroutine has finished, and
\* the station is connected with a link open and is in connectedStations:
\* the last call completed on it is a FetchInitialPowerState that returned
\* nil.
C37_Witness ==
    \E c \in Callers, d \in Addrs :
        /\ caller[c].pc = "down"
        /\ \A t \in Tasks : task[t].pc = "idle"
        /\ FullyConnected(station[d]) /\ links[d] = 1
        /\ d \in connectedStations
        /\ lastOp[d] \in {"FetchOn", "FetchOff"}

====
